---- MODULE Spec2Model ----
(***************************************************************************)
(* Blackjack game service: cards and deck (app/models/card.py), the score  *)
(* calculator and the game engine (app/services/game_service.py), the      *)
(* persisted rows (app/models/database.py), the settings                   *)
(* (app/core/config.py) and the request handlers (app/routes/game.py).     *)
(***************************************************************************)
EXTENDS Integers, Sequences, FiniteSets, TLC

VARIABLES
    players,     \* table "players": sequence of rows, row i has id i
    games,       \* table "game_sessions": sequence of rows, row i has id i
    response,    \* what the last request handler returned to the client
    ledger,      \* history: for each open game, the balance before its start
    scoreHand,   \* ScoreSpec: the hand handed to ScoreCalculator
    scoreOut,    \* ScoreSpec: what ScoreCalculator returned for scoreHand
    deckObj,     \* DeckSpec: Deck._cards of one Deck object
    draws,       \* DeckSpec: the cards Deck.draw returned, in order
    wire,        \* DeckSpec: Card.to_dict of each card drawn
    back,        \* DeckSpec: Card.from_dict of each entry of wire
    alone,       \* PairSpec, history: per session, the tables it alone makes
    inflight,    \* OverlapSpec: the requests received and not yet served
    metrics,     \* MetricsSpec, WindowSpec: the global Metrics object
    threads,     \* MetricsSpec: per thread, where it is in a Metrics method
    calls        \* MetricsSpec, WindowSpec, history: the calls made so far

vars ==
    <<players, games, response, ledger, scoreHand, scoreOut, deckObj, draws,
      wire, back, alone, inflight, metrics, threads, calls>>

\* the variables of the game, score, deck and metrics specifications
gameVars == <<players, games, response, ledger>>
scoreVars == <<scoreHand, scoreOut>>
deckVars == <<deckObj, draws, wire, back>>
metricsVars == <<metrics, threads, calls>>

(***************************************************************************)
(* Settings (app/core/config.py)                                           *)
(***************************************************************************)
initial_balance == 100
min_bet == 1
max_bet == 1000
dealer_stand_threshold == 17
\* blackjack_payout: float = 1.5, kept as the exact fraction 3/2
blackjack_payout_num == 3
blackjack_payout_den == 2

(***************************************************************************)
(* Bounds of the model                                                     *)
(***************************************************************************)
MaxGames == 2      \* game rows the model lets the table grow to
MaxHandLen == 4    \* ScoreSpec: longest hand handed to the calculator
MaxDraws == 54     \* DeckSpec: draws from one Deck object, past one refill
MaxLeft == 2       \* ExhaustedSpec: most cards left in the persisted deck
MaxSamples == 1002 \* WindowSpec: calls of record_response_time
MaxCalls == 4      \* MetricsSpec: calls of the increment methods
MaxInflight == 2   \* OverlapSpec: requests between their read and their commit

(***************************************************************************)
(* Cards (app/models/card.py)                                              *)
(***************************************************************************)
\* Enum members in declaration order.  The suit values are one-character
\* suit symbols in the source; SuitValue gives an ASCII stand-in for each.
Suit == <<"SPADES", "HEARTS", "DIAMONDS", "CLUBS">>
Rank == <<"ACE", "TWO", "THREE", "FOUR", "FIVE", "SIX", "SEVEN", "EIGHT",
          "NINE", "TEN", "JACK", "QUEEN", "KING">>

\* member name -> value, as the two enums declare them
SuitValue == [SPADES |-> "s", HEARTS |-> "h", DIAMONDS |-> "d", CLUBS |-> "c"]

RankValue ==
    [ACE |-> "A", TWO |-> "2", THREE |-> "3", FOUR |-> "4", FIVE |-> "5",
     SIX |-> "6", SEVEN |-> "7", EIGHT |-> "8", NINE |-> "9", TEN |-> "10",
     JACK |-> "J", QUEEN |-> "Q", KING |-> "K"]

\* Suit(value) and Rank(value): the member that has the value
SuitByValue ==
    [v \in {SuitValue[Suit[i]] : i \in 1..Len(Suit)} |->
        Suit[CHOOSE i \in 1..Len(Suit) : SuitValue[Suit[i]] = v]]

RankByValue ==
    [v \in {RankValue[Rank[i]] : i \in 1..Len(Rank)} |->
        Rank[CHOOSE i \in 1..Len(Rank) : RankValue[Rank[i]] = v]]

RANK_VALUES ==
    [ACE |-> 11, TWO |-> 2, THREE |-> 3, FOUR |-> 4, FIVE |-> 5, SIX |-> 6,
     SEVEN |-> 7, EIGHT |-> 8, NINE |-> 9, TEN |-> 10, JACK |-> 10,
     QUEEN |-> 10, KING |-> 10]

Card(s, r) == [suit |-> s, rank |-> r]

CardValue(card) == RANK_VALUES[card.rank]

is_ace(card) == card.rank = "ACE"

to_dict(card) ==
    [suit |-> SuitValue[card.suit], rank |-> RankValue[card.rank],
     value |-> CardValue(card)]

\* from_dict rebuilding the rank from the stored value instead of the rank
from_dict_RankFromValue(data) ==
    [suit |-> SuitByValue[data.suit],
     rank |-> IF data.value = 11 THEN "ACE" ELSE Rank[data.value]]

from_dict(data) ==
    [suit |-> SuitByValue[data.suit], rank |-> RankByValue[data.rank]]

ToDicts(cards) == [i \in 1..Len(cards) |-> to_dict(cards[i])]
FromDicts(dicts) == [i \in 1..Len(dicts) |-> from_dict(dicts[i])]

\* Deck._initialize_deck before the shuffle: suits outer, ranks inner
OrderedDeck ==
    [i \in 1..(Len(Suit) * Len(Rank)) |->
        Card(Suit[((i - 1) \div Len(Rank)) + 1], Rank[((i - 1) % Len(Rank)) + 1])]

\* list.pop(): the last element, and the list without it
Pop(cards) ==
    [card |-> cards[Len(cards)], cards |-> SubSeq(cards, 1, Len(cards) - 1)]

\* Deck.draw refilling after the pop that empties the deck, not before the
\* pop that finds it empty
DeckDraw_RefillsEarly(cards, fresh) ==
    LET d == Pop(IF cards = <<>> THEN fresh ELSE cards)
    IN  IF d.cards = <<>> THEN [card |-> d.card, cards |-> fresh] ELSE d

\* Deck.draw on a deck holding `cards`; `fresh` is the shuffle a refill gives
DeckDraw(cards, fresh) == Pop(IF cards = <<>> THEN fresh ELSE cards)

(***************************************************************************)
(* ScoreCalculator (app/services/game_service.py)                          *)
(***************************************************************************)
RECURSIVE SumNonAces(_)
SumNonAces(cards) ==
    IF cards = <<>> THEN 0
    ELSE (IF is_ace(Head(cards)) THEN 0 ELSE CardValue(Head(cards)))
         + SumNonAces(Tail(cards))

CountAces(cards) == Cardinality({i \in 1..Len(cards) : is_ace(cards[i])})

\* the second loop: one ace at a time, 11 while the running score allows it
RECURSIVE AddAces(_, _)
AddAces(score, aces) ==
    IF aces = 0 THEN score
    ELSE AddAces(IF score + 11 <= 21 THEN score + 11 ELSE score + 1, aces - 1)

\* calculate in a single pass over the hand, each ace counted as 11 when
\* that fits the total of the cards before it
RECURSIVE InOrder(_, _)
InOrder(cards, score) ==
    IF cards = <<>> THEN score
    ELSE InOrder(Tail(cards),
                 IF is_ace(Head(cards))
                 THEN (IF score + 11 <= 21 THEN score + 11 ELSE score + 1)
                 ELSE score + CardValue(Head(cards)))

calculate_InOrder(cards) == InOrder(cards, 0)

calculate(cards) == AddAces(SumNonAces(cards), CountAces(cards))

is_bust(score) == score > 21

is_blackjack(cards) ==
    IF Len(cards) # 2 THEN FALSE ELSE calculate(cards) = 21

(***************************************************************************)
(* Rows (app/models/database.py)                                           *)
(***************************************************************************)
IN_PROGRESS == "in_progress"
PLAYER_WIN == "player_win"
DEALER_WIN == "dealer_win"
PUSH == "push"
PLAYER_BUST == "player_bust"
DEALER_BUST == "dealer_bust"
BLACKJACK == "blackjack"

GameStatus ==
    {IN_PROGRESS, PLAYER_WIN, DEALER_WIN, PUSH, PLAYER_BUST, DEALER_BUST,
     BLACKJACK}

\* Player(session_id=..., balance=...): the other columns take their defaults
Player(session_id, balance) ==
    [session_id |-> session_id, balance |-> balance, total_games |-> 0,
     total_wins |-> 0, total_losses |-> 0, total_pushes |-> 0]

\* GameSession(...) as start_game builds it; status, completed_at, payout
\* and message take the column defaults
GameSession(player_id, bet, p_hand, d_hand, deck, p_score, d_score) ==
    [player_id |-> player_id, bet_amount |-> bet, status |-> IN_PROGRESS,
     player_hand |-> p_hand, dealer_hand |-> d_hand, deck_state |-> deck,
     player_score |-> p_score, dealer_score |-> d_score,
     completed_at |-> "None", payout |-> 0, message |-> ""]

\* datetime.utcnow(): some time, as opposed to NULL
utcnow == "utcnow"

(***************************************************************************)
(* GameService (app/services/game_service.py).  Each operation is an       *)
(* operator from the two tables to the two tables after its commit, with   *)
(* what it returns.                                                        *)
(***************************************************************************)
\* the query without its session filter: the first row of the table
FindPlayer_AnySession(P, s) == IF Len(P) > 0 THEN 1 ELSE 0

\* query(Player).filter(session_id == s).first(): a row id, 0 for None
FindPlayer(P, s) ==
    IF \E i \in 1..Len(P) : P[i].session_id = s
    THEN CHOOSE i \in 1..Len(P) :
            /\ P[i].session_id = s
            /\ \A j \in 1..(i - 1) : P[j].session_id # s
    ELSE 0

\* get_or_create_player that hands out a found row re-initialised
get_or_create_player_ReInitialises(P, s) ==
    IF FindPlayer(P, s) # 0
    THEN [players |-> [P EXCEPT ![FindPlayer(P, s)] =
                          Player(s, initial_balance)],
          id |-> FindPlayer(P, s)]
    ELSE [players |-> Append(P, Player(s, initial_balance)), id |-> Len(P) + 1]

get_or_create_player(P, s) ==
    IF FindPlayer(P, s) # 0
    THEN [players |-> P, id |-> FindPlayer(P, s)]
    ELSE [players |-> Append(P, Player(s, initial_balance)), id |-> Len(P) + 1]

\* get_active_game returning the player's latest game whatever its status
get_active_game_LatestGame(G, player_id) ==
    IF \E i \in 1..Len(G) : G[i].player_id = player_id
    THEN CHOOSE i \in 1..Len(G) :
            /\ G[i].player_id = player_id
            /\ \A j \in (i + 1)..Len(G) : G[j].player_id # player_id
    ELSE 0

\* get_active_game without the status filter: the player's first game
get_active_game_AnyStatus(G, player_id) ==
    IF \E i \in 1..Len(G) : G[i].player_id = player_id
    THEN CHOOSE i \in 1..Len(G) :
            /\ G[i].player_id = player_id
            /\ \A j \in 1..(i - 1) : G[j].player_id # player_id
    ELSE 0

\* a row id, 0 for None
get_active_game(G, player_id) ==
    IF \E i \in 1..Len(G) :
          G[i].player_id = player_id /\ G[i].status = IN_PROGRESS
    THEN CHOOSE i \in 1..Len(G) :
            /\ G[i].player_id = player_id /\ G[i].status = IN_PROGRESS
            /\ \A j \in 1..(i - 1) :
                  ~(G[j].player_id = player_id /\ G[j].status = IN_PROGRESS)
    ELSE 0

MinBetMessage == "Minimum bet is $" \o ToString(min_bet)
MaxBetMessage == "Maximum bet is $" \o ToString(max_bet)

\* BlackjackPayout rounding the product up instead of truncating it
BlackjackPayout_RoundUp(bet) ==
    (bet * (blackjack_payout_den + blackjack_payout_num)
        + blackjack_payout_den - 1) \div blackjack_payout_den

\* int(bet * (1 + blackjack_payout)): the product truncated to an integer
BlackjackPayout(bet) ==
    (bet * (blackjack_payout_den + blackjack_payout_num))
        \div blackjack_payout_den

\* ResolveNaturals without the check of the dealer's hand
ResolveNaturals_NoDealerCheck(player, game, bet, player_hand, dealer_hand) ==
    IF is_blackjack(player_hand)
    THEN [game |-> [game EXCEPT !.status = BLACKJACK,
                                !.message = "Blackjack! You win!",
                                !.payout = BlackjackPayout(bet),
                                !.completed_at = utcnow],
          player |-> [player EXCEPT !.balance = @ + BlackjackPayout(bet),
                                    !.total_wins = @ + 1,
                                    !.total_games = @ + 1]]
    ELSE [game |-> game, player |-> player]

\* the natural-blackjack block of start_game, lines 126-145
ResolveNaturals(player, game, bet, player_hand, dealer_hand) ==
    IF is_blackjack(player_hand)
    THEN IF is_blackjack(dealer_hand)
         THEN [game |-> [game EXCEPT !.status = PUSH,
                                     !.message = "Both have Blackjack! Push!",
                                     !.payout = bet,
                                     !.completed_at = utcnow],
               player |-> [player EXCEPT !.balance = @ + bet,
                                         !.total_pushes = @ + 1,
                                         !.total_games = @ + 1]]
         ELSE [game |-> [game EXCEPT !.status = BLACKJACK,
                                     !.message = "Blackjack! You win!",
                                     !.payout = BlackjackPayout(bet),
                                     !.completed_at = utcnow],
               player |-> [player EXCEPT !.balance = @ + BlackjackPayout(bet),
                                         !.total_wins = @ + 1,
                                         !.total_games = @ + 1]]
    ELSE [game |-> game, player |-> player]

\* Deal handing the cards out in turn: player, dealer, player, dealer
Deal_Alternating(player, player_id, bet, fresh) ==
    LET d1 == DeckDraw(fresh, fresh)
        d2 == DeckDraw(d1.cards, fresh)
        d3 == DeckDraw(d2.cards, fresh)
        d4 == DeckDraw(d3.cards, fresh)
        player_hand == <<d1.card, d3.card>>
        dealer_hand == <<d2.card, d4.card>>
    IN  [player |-> [player EXCEPT !.balance = @ - bet],
         player_hand |-> player_hand,
         dealer_hand |-> dealer_hand,
         game |-> GameSession(player_id, bet, ToDicts(player_hand),
                              ToDicts(dealer_hand), ToDicts(d4.cards),
                              calculate(player_hand), calculate(dealer_hand))]

\* Deal without the debit of the bet
Deal_NoDebit(player, player_id, bet, fresh) ==
    LET d1 == DeckDraw(fresh, fresh)
        d2 == DeckDraw(d1.cards, fresh)
        d3 == DeckDraw(d2.cards, fresh)
        d4 == DeckDraw(d3.cards, fresh)
        player_hand == <<d1.card, d2.card>>
        dealer_hand == <<d3.card, d4.card>>
    IN  [player |-> player,
         player_hand |-> player_hand,
         dealer_hand |-> dealer_hand,
         game |-> GameSession(player_id, bet, ToDicts(player_hand),
                              ToDicts(dealer_hand), ToDicts(d4.cards),
                              calculate(player_hand), calculate(dealer_hand))]

\* Deal that leaves deck_state at its column default, the empty list
Deal_DeckNotSaved(player, player_id, bet, fresh) ==
    LET d1 == DeckDraw(fresh, fresh)
        d2 == DeckDraw(d1.cards, fresh)
        d3 == DeckDraw(d2.cards, fresh)
        d4 == DeckDraw(d3.cards, fresh)
        player_hand == <<d1.card, d2.card>>
        dealer_hand == <<d3.card, d4.card>>
    IN  [player |-> [player EXCEPT !.balance = @ - bet],
         player_hand |-> player_hand,
         dealer_hand |-> dealer_hand,
         game |-> GameSession(player_id, bet, ToDicts(player_hand),
                              ToDicts(dealer_hand), <<>>,
                              calculate(player_hand), calculate(dealer_hand))]

\* lines 103-124: the bet is taken and the four cards are drawn from `fresh`,
\* the shuffle Deck() produced
Deal(player, player_id, bet, fresh) ==
    LET d1 == DeckDraw(fresh, fresh)
        d2 == DeckDraw(d1.cards, fresh)
        d3 == DeckDraw(d2.cards, fresh)
        d4 == DeckDraw(d3.cards, fresh)
        player_hand == <<d1.card, d2.card>>
        dealer_hand == <<d3.card, d4.card>>
    IN  [player |-> [player EXCEPT !.balance = @ - bet],
         player_hand |-> player_hand,
         dealer_hand |-> dealer_hand,
         game |-> GameSession(player_id, bet, ToDicts(player_hand),
                              ToDicts(dealer_hand), ToDicts(d4.cards),
                              calculate(player_hand), calculate(dealer_hand))]

\* StartError without the check of the bet against the balance
StartError_NoBalanceCheck(P, G, player_id, bet) ==
    IF bet < min_bet THEN MinBetMessage
    ELSE IF bet > max_bet THEN MaxBetMessage
    ELSE IF get_active_game(G, player_id) # 0 THEN "Game already in progress"
    ELSE ""

\* StartError without the check for a game in progress
StartError_NoActiveCheck(P, G, player_id, bet) ==
    IF bet < min_bet THEN MinBetMessage
    ELSE IF bet > max_bet THEN MaxBetMessage
    ELSE IF bet > P[player_id].balance THEN "Insufficient balance"
    ELSE ""

\* StartError that looks for a game in progress before it compares the bet
\* with the balance
StartError_ActiveFirst(P, G, player_id, bet) ==
    IF bet < min_bet THEN MinBetMessage
    ELSE IF bet > max_bet THEN MaxBetMessage
    ELSE IF get_active_game(G, player_id) # 0 THEN "Game already in progress"
    ELSE IF bet > P[player_id].balance THEN "Insufficient balance"
    ELSE ""

\* the reason start_game rejects with, "" when it accepts
StartError(P, G, player_id, bet) ==
    IF bet < min_bet THEN MinBetMessage
    ELSE IF bet > max_bet THEN MaxBetMessage
    ELSE IF bet > P[player_id].balance THEN "Insufficient balance"
    ELSE IF get_active_game(G, player_id) # 0 THEN "Game already in progress"
    ELSE ""

\* start_game taking the bet before it validates, and keeping it on rejection
start_game_DebitFirst(P, G, s, bet, fresh) ==
    LET gp == get_or_create_player(P, s)
        error == StartError(gp.players, G, gp.id, bet)
        dealt == Deal(gp.players[gp.id], gp.id, bet, fresh)
        res == ResolveNaturals(dealt.player, dealt.game, bet,
                               dealt.player_hand, dealt.dealer_hand)
    IN  IF error # ""
        THEN [players |-> [gp.players EXCEPT ![gp.id].balance = @ - bet],
              games |-> G, game |-> 0, error |-> error]
        ELSE [players |-> [gp.players EXCEPT ![gp.id] = res.player],
              games |-> Append(G, res.game), game |-> Len(G) + 1,
              error |-> ""]

start_game(P, G, s, bet, fresh) ==
    LET gp == get_or_create_player(P, s)
        error == StartError(gp.players, G, gp.id, bet)
        dealt == Deal(gp.players[gp.id], gp.id, bet, fresh)
        res == ResolveNaturals(dealt.player, dealt.game, bet,
                               dealt.player_hand, dealt.dealer_hand)
    IN  IF error # ""
        THEN [players |-> gp.players, games |-> G, game |-> 0, error |-> error]
        ELSE [players |-> [gp.players EXCEPT ![gp.id] = res.player],
              games |-> Append(G, res.game), game |-> Len(G) + 1,
              error |-> ""]

\* HitGame storing the new hand and leaving the stored player score as it was
HitGame_StaleScore(player, game) ==
    LET drawn == Pop(FromDicts(game.deck_state))
        player_hand == Append(FromDicts(game.player_hand), drawn.card)
        player_score == calculate(player_hand)
        g == [game EXCEPT !.player_hand = ToDicts(player_hand),
                          !.deck_state = ToDicts(drawn.cards)]
    IN  IF is_bust(player_score)
        THEN [game |-> [g EXCEPT !.status = PLAYER_BUST,
                                 !.message = "Bust! You lose!",
                                 !.completed_at = utcnow],
              player |-> [player EXCEPT !.total_games = @ + 1,
                                        !.total_losses = @ + 1]]
        ELSE [game |-> g, player |-> player]

\* HitGame storing the new hand and leaving the drawn card in the deck
HitGame_KeepsCard(player, game) ==
    LET drawn == Pop(FromDicts(game.deck_state))
        player_hand == Append(FromDicts(game.player_hand), drawn.card)
        player_score == calculate(player_hand)
        g == [game EXCEPT !.player_hand = ToDicts(player_hand),
                          !.player_score = player_score]
    IN  IF is_bust(player_score)
        THEN [game |-> [g EXCEPT !.status = PLAYER_BUST,
                                 !.message = "Bust! You lose!",
                                 !.completed_at = utcnow],
              player |-> [player EXCEPT !.total_games = @ + 1,
                                        !.total_losses = @ + 1]]
        ELSE [game |-> g, player |-> player]

\* HitGame drawing the first card of the remaining deck instead of the last
HitGame_PopFirst(player, game) ==
    LET deck_cards == FromDicts(game.deck_state)
        player_hand == Append(FromDicts(game.player_hand), Head(deck_cards))
        player_score == calculate(player_hand)
        g == [game EXCEPT !.player_hand = ToDicts(player_hand),
                          !.deck_state = ToDicts(Tail(deck_cards)),
                          !.player_score = player_score]
    IN  IF is_bust(player_score)
        THEN [game |-> [g EXCEPT !.status = PLAYER_BUST,
                                 !.message = "Bust! You lose!",
                                 !.completed_at = utcnow],
              player |-> [player EXCEPT !.total_games = @ + 1,
                                        !.total_losses = @ + 1]]
        ELSE [game |-> g, player |-> player]

\* HitGame that counts a bust as a loss but not as a game played
HitGame_BustUncounted(player, game) ==
    LET drawn == Pop(FromDicts(game.deck_state))
        player_hand == Append(FromDicts(game.player_hand), drawn.card)
        player_score == calculate(player_hand)
        g == [game EXCEPT !.player_hand = ToDicts(player_hand),
                          !.deck_state = ToDicts(drawn.cards),
                          !.player_score = player_score]
    IN  IF is_bust(player_score)
        THEN [game |-> [g EXCEPT !.status = PLAYER_BUST,
                                 !.message = "Bust! You lose!",
                                 !.completed_at = utcnow],
              player |-> [player EXCEPT !.total_losses = @ + 1]]
        ELSE [game |-> g, player |-> player]

\* HitGame without the bust check: the game goes on whatever the score
HitGame_NeverBust(player, game) ==
    LET drawn == Pop(FromDicts(game.deck_state))
        player_hand == Append(FromDicts(game.player_hand), drawn.card)
    IN  [game |-> [game EXCEPT !.player_hand = ToDicts(player_hand),
                               !.deck_state = ToDicts(drawn.cards),
                               !.player_score = calculate(player_hand)],
         player |-> player]

\* lines 164-186 of hit, on the active game row and its player row
HitGame(player, game) ==
    LET drawn == Pop(FromDicts(game.deck_state))
        player_hand == Append(FromDicts(game.player_hand), drawn.card)
        player_score == calculate(player_hand)
        g == [game EXCEPT !.player_hand = ToDicts(player_hand),
                          !.deck_state = ToDicts(drawn.cards),
                          !.player_score = player_score]
    IN  IF is_bust(player_score)
        THEN [game |-> [g EXCEPT !.status = PLAYER_BUST,
                                 !.message = "Bust! You lose!",
                                 !.completed_at = utcnow],
              player |-> [player EXCEPT !.total_games = @ + 1,
                                        !.total_losses = @ + 1]]
        ELSE [game |-> g, player |-> player]

hit(P, G, s) ==
    LET gp == get_or_create_player(P, s)
        game == get_active_game(G, gp.id)
    IN  IF game = 0
        THEN [players |-> gp.players, games |-> G, game |-> 0,
              error |-> "No active game"]
        ELSE IF FromDicts(G[game].deck_state) = <<>>
        THEN [players |-> gp.players, games |-> G, game |-> 0,
              error |-> "Deck is empty"]
        ELSE LET res == HitGame(gp.players[gp.id], G[game])
             IN  [players |-> [gp.players EXCEPT ![gp.id] = res.player],
                  games |-> [G EXCEPT ![game] = res.game], game |-> game,
                  error |-> ""]

\* DealerPlay with a dealer that still draws on exactly the threshold
RECURSIVE DealerPlay_DrawsOnThreshold(_, _)
DealerPlay_DrawsOnThreshold(dealer_hand, deck_cards) ==
    IF calculate(dealer_hand) <= dealer_stand_threshold /\ deck_cards # <<>>
    THEN DealerPlay_DrawsOnThreshold(
            Append(dealer_hand, Pop(deck_cards).card), Pop(deck_cards).cards)
    ELSE [dealer_hand |-> dealer_hand, deck_cards |-> deck_cards,
          dealer_score |-> calculate(dealer_hand)]

\* the dealer loop of stand, lines 210-213
RECURSIVE DealerPlay(_, _)
DealerPlay(dealer_hand, deck_cards) ==
    IF calculate(dealer_hand) < dealer_stand_threshold /\ deck_cards # <<>>
    THEN DealerPlay(Append(dealer_hand, Pop(deck_cards).card),
                    Pop(deck_cards).cards)
    ELSE [dealer_hand |-> dealer_hand, deck_cards |-> deck_cards,
          dealer_score |-> calculate(dealer_hand)]

\* Resolve giving the game to a dealer whose two cards make 21, before the
\* scores are compared
Resolve_DealerNaturalWins(player, game, dealer_score) ==
    LET player_score == game.player_score
        g == [game EXCEPT !.completed_at = utcnow]
        p == [player EXCEPT !.total_games = @ + 1]
    IN  IF is_bust(dealer_score)
        THEN [game |-> [g EXCEPT !.status = DEALER_BUST,
                                 !.message = "Dealer busts! You win!",
                                 !.payout = game.bet_amount * 2],
              player |-> [p EXCEPT !.balance = @ + game.bet_amount * 2,
                                   !.total_wins = @ + 1]]
        ELSE IF \/ dealer_score > player_score
                \/ is_blackjack(FromDicts(game.dealer_hand))
        THEN [game |-> [g EXCEPT !.status = DEALER_WIN,
                                 !.message = "Dealer wins!"],
              player |-> [p EXCEPT !.total_losses = @ + 1]]
        ELSE IF dealer_score < player_score
        THEN [game |-> [g EXCEPT !.status = PLAYER_WIN,
                                 !.message = "You win!",
                                 !.payout = game.bet_amount * 2],
              player |-> [p EXCEPT !.balance = @ + game.bet_amount * 2,
                                   !.total_wins = @ + 1]]
        ELSE [game |-> [g EXCEPT !.status = PUSH,
                                 !.message = "Push!",
                                 !.payout = game.bet_amount],
              player |-> [p EXCEPT !.balance = @ + game.bet_amount,
                                   !.total_pushes = @ + 1]]

\* Resolve with a push that records the payout and does not credit it
Resolve_PushNotCredited(player, game, dealer_score) ==
    LET player_score == game.player_score
        g == [game EXCEPT !.completed_at = utcnow]
        p == [player EXCEPT !.total_games = @ + 1]
    IN  IF is_bust(dealer_score)
        THEN [game |-> [g EXCEPT !.status = DEALER_BUST,
                                 !.message = "Dealer busts! You win!",
                                 !.payout = game.bet_amount * 2],
              player |-> [p EXCEPT !.balance = @ + game.bet_amount * 2,
                                   !.total_wins = @ + 1]]
        ELSE IF dealer_score > player_score
        THEN [game |-> [g EXCEPT !.status = DEALER_WIN,
                                 !.message = "Dealer wins!"],
              player |-> [p EXCEPT !.total_losses = @ + 1]]
        ELSE IF dealer_score < player_score
        THEN [game |-> [g EXCEPT !.status = PLAYER_WIN,
                                 !.message = "You win!",
                                 !.payout = game.bet_amount * 2],
              player |-> [p EXCEPT !.balance = @ + game.bet_amount * 2,
                                   !.total_wins = @ + 1]]
        ELSE [game |-> [g EXCEPT !.status = PUSH,
                                 !.message = "Push!",
                                 !.payout = game.bet_amount],
              player |-> [p EXCEPT !.total_pushes = @ + 1]]

\* Resolve comparing the scores before it looks for a dealer bust
Resolve_CompareFirst(player, game, dealer_score) ==
    LET player_score == game.player_score
        g == [game EXCEPT !.completed_at = utcnow]
        p == [player EXCEPT !.total_games = @ + 1]
    IN  IF dealer_score > player_score
        THEN [game |-> [g EXCEPT !.status = DEALER_WIN,
                                 !.message = "Dealer wins!"],
              player |-> [p EXCEPT !.total_losses = @ + 1]]
        ELSE IF is_bust(dealer_score)
        THEN [game |-> [g EXCEPT !.status = DEALER_BUST,
                                 !.message = "Dealer busts! You win!",
                                 !.payout = game.bet_amount * 2],
              player |-> [p EXCEPT !.balance = @ + game.bet_amount * 2,
                                   !.total_wins = @ + 1]]
        ELSE IF dealer_score < player_score
        THEN [game |-> [g EXCEPT !.status = PLAYER_WIN,
                                 !.message = "You win!",
                                 !.payout = game.bet_amount * 2],
              player |-> [p EXCEPT !.balance = @ + game.bet_amount * 2,
                                   !.total_wins = @ + 1]]
        ELSE [game |-> [g EXCEPT !.status = PUSH,
                                 !.message = "Push!",
                                 !.payout = game.bet_amount],
              player |-> [p EXCEPT !.balance = @ + game.bet_amount,
                                   !.total_pushes = @ + 1]]

\* Resolve that records the payout of a win over the dealer's score without
\* crediting it
Resolve_WinNotCredited(player, game, dealer_score) ==
    LET player_score == game.player_score
        g == [game EXCEPT !.completed_at = utcnow]
        p == [player EXCEPT !.total_games = @ + 1]
    IN  IF is_bust(dealer_score)
        THEN [game |-> [g EXCEPT !.status = DEALER_BUST,
                                 !.message = "Dealer busts! You win!",
                                 !.payout = game.bet_amount * 2],
              player |-> [p EXCEPT !.balance = @ + game.bet_amount * 2,
                                   !.total_wins = @ + 1]]
        ELSE IF dealer_score > player_score
        THEN [game |-> [g EXCEPT !.status = DEALER_WIN,
                                 !.message = "Dealer wins!"],
              player |-> [p EXCEPT !.total_losses = @ + 1]]
        ELSE IF dealer_score < player_score
        THEN [game |-> [g EXCEPT !.status = PLAYER_WIN,
                                 !.message = "You win!",
                                 !.payout = game.bet_amount * 2],
              player |-> [p EXCEPT !.total_wins = @ + 1]]
        ELSE [game |-> [g EXCEPT !.status = PUSH,
                                 !.message = "Push!",
                                 !.payout = game.bet_amount],
              player |-> [p EXCEPT !.balance = @ + game.bet_amount,
                                   !.total_pushes = @ + 1]]

\* lines 220-247 of stand: the winner, from the dealer's final score and
\* the stored player score
Resolve(player, game, dealer_score) ==
    LET player_score == game.player_score
        g == [game EXCEPT !.completed_at = utcnow]
        p == [player EXCEPT !.total_games = @ + 1]
    IN  IF is_bust(dealer_score)
        THEN [game |-> [g EXCEPT !.status = DEALER_BUST,
                                 !.message = "Dealer busts! You win!",
                                 !.payout = game.bet_amount * 2],
              player |-> [p EXCEPT !.balance = @ + game.bet_amount * 2,
                                   !.total_wins = @ + 1]]
        ELSE IF dealer_score > player_score
        THEN [game |-> [g EXCEPT !.status = DEALER_WIN,
                                 !.message = "Dealer wins!"],
              player |-> [p EXCEPT !.total_losses = @ + 1]]
        ELSE IF dealer_score < player_score
        THEN [game |-> [g EXCEPT !.status = PLAYER_WIN,
                                 !.message = "You win!",
                                 !.payout = game.bet_amount * 2],
              player |-> [p EXCEPT !.balance = @ + game.bet_amount * 2,
                                   !.total_wins = @ + 1]]
        ELSE [game |-> [g EXCEPT !.status = PUSH,
                                 !.message = "Push!",
                                 !.payout = game.bet_amount],
              player |-> [p EXCEPT !.balance = @ + game.bet_amount,
                                   !.total_pushes = @ + 1]]

\* StandGame that leaves completed_at unset
StandGame_NoTimestamp(player, game) ==
    LET played == DealerPlay(FromDicts(game.dealer_hand),
                             FromDicts(game.deck_state))
        g == [game EXCEPT !.dealer_hand = ToDicts(played.dealer_hand),
                          !.deck_state = ToDicts(played.deck_cards),
                          !.dealer_score = played.dealer_score]
        res == Resolve(player, g, played.dealer_score)
    IN  [game |-> [res.game EXCEPT !.completed_at = "None"],
         player |-> res.player]

\* lines 204-247 of stand, on the active game row and its player row
StandGame(player, game) ==
    LET played == DealerPlay(FromDicts(game.dealer_hand),
                             FromDicts(game.deck_state))
        g == [game EXCEPT !.dealer_hand = ToDicts(played.dealer_hand),
                          !.deck_state = ToDicts(played.deck_cards),
                          !.dealer_score = played.dealer_score]
    IN  Resolve(player, g, played.dealer_score)

stand(P, G, s) ==
    LET gp == get_or_create_player(P, s)
        game == get_active_game(G, gp.id)
    IN  IF game = 0
        THEN [players |-> gp.players, games |-> G, game |-> 0,
              error |-> "No active game"]
        ELSE LET res == StandGame(gp.players[gp.id], G[game])
             IN  [players |-> [gp.players EXCEPT ![gp.id] = res.player],
                  games |-> [G EXCEPT ![game] = res.game], game |-> game,
                  error |-> ""]

HiddenCard == [suit |-> "?", rank |-> "?", value |-> 0]

\* get_game_state giving the stored dealer score while the game is open
get_game_state_TrueScore(game, player) ==
    [playerHand |-> game.player_hand,
     dealerHand |-> IF game.status = IN_PROGRESS
                    THEN <<game.dealer_hand[1], HiddenCard>>
                    ELSE game.dealer_hand,
     playerScore |-> game.player_score,
     dealerScore |-> game.dealer_score,
     balance |-> player.balance,
     bet |-> game.bet_amount,
     gameOver |-> game.status # IN_PROGRESS,
     message |-> game.message]

\* get_game_state masking suit and rank of the hole card but not its value
get_game_state_HiddenKeepsValue(game, player) ==
    [playerHand |-> game.player_hand,
     dealerHand |-> IF game.status = IN_PROGRESS
                    THEN <<game.dealer_hand[1],
                           [HiddenCard EXCEPT
                               !.value = game.dealer_hand[2].value]>>
                    ELSE game.dealer_hand,
     playerScore |-> game.player_score,
     dealerScore |-> IF game.status = IN_PROGRESS
                     THEN game.dealer_hand[1].value
                     ELSE game.dealer_score,
     balance |-> player.balance,
     bet |-> game.bet_amount,
     gameOver |-> game.status # IN_PROGRESS,
     message |-> game.message]

get_game_state(game, player) ==
    [playerHand |-> game.player_hand,
     dealerHand |-> IF game.status = IN_PROGRESS
                    THEN <<game.dealer_hand[1], HiddenCard>>
                    ELSE game.dealer_hand,
     playerScore |-> game.player_score,
     dealerScore |-> IF game.status = IN_PROGRESS
                     THEN game.dealer_hand[1].value
                     ELSE game.dealer_score,
     balance |-> player.balance,
     bet |-> game.bet_amount,
     gameOver |-> game.status # IN_PROGRESS,
     message |-> game.message]

\* reset_player that only tops a balance up to the initial balance
reset_player_TopsUp(P, s) ==
    LET gp == get_or_create_player(P, s)
    IN  [players |-> [gp.players EXCEPT ![gp.id].balance =
                         IF @ < initial_balance THEN initial_balance ELSE @],
         id |-> gp.id]

\* reset_player that starts the player row over: balance and counters
reset_player_ClearsCounters(P, s) ==
    LET gp == get_or_create_player(P, s)
    IN  [players |-> [gp.players EXCEPT ![gp.id] = Player(s, initial_balance)],
         id |-> gp.id]

reset_player(P, s) ==
    LET gp == get_or_create_player(P, s)
    IN  [players |-> [gp.players EXCEPT ![gp.id].balance = initial_balance],
         id |-> gp.id]

\* round(total_wins / total_games * 100, 2), in hundredths of a percent
WinRate(player) ==
    IF player.total_games > 0
    THEN (2 * 10000 * player.total_wins + player.total_games)
            \div (2 * player.total_games)
    ELSE 0

\* get_player_stats that looks the player up with get_or_create_player
get_player_stats_Creates(P, s) ==
    LET gp == get_or_create_player(P, s)
        player == gp.players[gp.id]
    IN  [players |-> gp.players, found |-> TRUE,
         stats |-> [balance |-> player.balance,
                    total_games |-> player.total_games,
                    total_wins |-> player.total_wins,
                    total_losses |-> player.total_losses,
                    total_pushes |-> player.total_pushes,
                    win_rate |-> WinRate(player)]]

\* the players table as the call leaves it, whether a player was found
\* (None is returned otherwise) and the statistics returned
get_player_stats(P, s) ==
    IF FindPlayer(P, s) = 0
    THEN [players |-> P, found |-> FALSE, stats |-> [balance |-> 0]]
    ELSE LET player == P[FindPlayer(P, s)]
         IN  [players |-> P, found |-> TRUE,
              stats |-> [balance |-> player.balance,
                         total_games |-> player.total_games,
                         total_wins |-> player.total_wins,
                         total_losses |-> player.total_losses,
                         total_pushes |-> player.total_pushes,
                         win_rate |-> WinRate(player)]]

(***************************************************************************)
(* Request handlers (app/routes/game.py): the service call, then the       *)
(* player is read again and the view is built.                             *)
(***************************************************************************)
\* what start_game, hit and stand of the router return for a service result
Reply(r, s) ==
    IF r.error # ""
    THEN [error |-> r.error]
    ELSE get_game_state(r.games[r.game],
                        r.players[get_or_create_player(r.players, s).id])

(***************************************************************************)
(* Inputs: the sessions that send requests, the bets they send, and the    *)
(* outcomes of random.shuffle the model draws from.                        *)
(***************************************************************************)
Sessions == {"s1"}

\* below the minimum; an odd bet the initial balance covers; the whole of a
\* balance grown by one win; an even bet that only a balance grown by a
\* blackjack covers; above the maximum
Bets == {0, 25, 125, 126, 1001}

\* The first cards a shuffled deck gives, in draw order: the player's two,
\* the dealer's two, then the cards hit and the dealer loop take.
DrawPrefixes ==
    { \* both naturals
      <<Card("SPADES", "ACE"), Card("SPADES", "KING"),
        Card("HEARTS", "ACE"), Card("HEARTS", "KING")>>,
      \* player natural only
      <<Card("SPADES", "ACE"), Card("SPADES", "KING"),
        Card("HEARTS", "NINE"), Card("HEARTS", "SEVEN")>>,
      \* dealer natural only; a hit makes a three-card 21
      <<Card("SPADES", "TEN"), Card("SPADES", "NINE"),
        Card("HEARTS", "ACE"), Card("HEARTS", "KING"),
        Card("DIAMONDS", "TWO")>>,
      \* soft 15 against a soft 17; hits bring a six, then a second ace
      <<Card("SPADES", "FOUR"), Card("SPADES", "ACE"),
        Card("HEARTS", "ACE"), Card("HEARTS", "SIX"),
        Card("DIAMONDS", "SIX"), Card("DIAMONDS", "ACE")>>,
      \* dealer 5 draws several cards
      <<Card("SPADES", "FIVE"), Card("SPADES", "SIX"),
        Card("HEARTS", "TWO"), Card("HEARTS", "THREE"),
        Card("DIAMONDS", "TEN"), Card("CLUBS", "FOUR"),
        Card("CLUBS", "FIVE")>> }

Reverse(seq) == [i \in 1..Len(seq) |-> seq[Len(seq) + 1 - i]]

InSeq(x, seq) == \E i \in 1..Len(seq) : seq[i] = x

\* the permutation of the ordered deck that is drawn in the order `prefix`,
\* the other cards keeping their order
ShuffleTo(prefix) ==
    LET Rest(c) == ~InSeq(c, prefix)
    IN  SelectSeq(OrderedDeck, Rest) \o Reverse(prefix)

\* Deck(): the ordered deck after random.shuffle
Shuffles == {ShuffleTo(prefix) : prefix \in DrawPrefixes}

\* No deck: Deck() is called on the accepted path of start_game only
NoDeck == <<>>

\* the shuffles a call of start_game can meet
DecksDrawn(P, G, s, bet) ==
    LET gp == get_or_create_player(P, s)
    IN  IF StartError(gp.players, G, gp.id, bet) = "" THEN Shuffles
        ELSE {NoDeck}

\* ScoreSpec: the cards hands are built from, one of each rank
ScoreCards == {Card("SPADES", Rank[i]) : i \in 1..Len(Rank)}

\* The history variable: game id -> the balance its player had before the
\* start, and whether the balance was reset since; kept while the game is open
NoLedger == [i \in {} |-> 0]

Opened(L, game, balance) ==
    [i \in DOMAIN L \cup {game} |->
        IF i = game THEN [balance_before |-> balance, reset_since |-> FALSE]
        ELSE L[i]]

OpenGames(G, L) ==
    [i \in {j \in DOMAIN L : G[j].status = IN_PROGRESS} |-> L[i]]

(***************************************************************************)
(* Metrics (app/services/metrics_service.py)                               *)
(***************************************************************************)
\* the size of the response-time window: deque(maxlen=1000)
maxlen == 1000

\* the threads that call into the Metrics object
Threads == {"t1", "t2"}

\* endpoint_counts: Dict[str, int], empty at construction
NoCounts == [e \in {} |-> 0]

\* Metrics(): the field defaults; lock is "free" or the thread that holds it
Metrics ==
    [request_count |-> 0, error_count |-> 0, response_times |-> <<>>,
     endpoint_counts |-> NoCounts, lock |-> "free"]

\* a thread outside every Metrics method
IdleThread == [pc |-> "idle", call |-> "none", endpoint |-> "", tmp |-> 0]

\* history: no call made yet
NoCalls ==
    [increment_request |-> 0, increment_error |-> 0, endpoints |-> NoCounts,
     durations |-> <<>>, avg |-> <<0, 1>>]

MetricsIdle ==
    /\ metrics = Metrics
    /\ threads = [t \in Threads |-> IdleThread]
    /\ calls = NoCalls

\* with self._lock: a thread enters when no thread holds the lock
CanEnter_Unlocked(m) == TRUE

CanEnter(m) == m.lock = "free"

\* deque.append on a deque(maxlen=1000): the oldest sample goes when full
DequeAppend_DropsNewest(window, x) ==
    IF Len(window) < maxlen THEN Append(window, x)
    ELSE Append(SubSeq(window, 1, Len(window) - 1), x)

DequeAppend(window, x) ==
    IF Len(window) < maxlen THEN Append(window, x)
    ELSE Append(Tail(window), x)

\* sum(seq[lo..hi])
RECURSIVE SumRange(_, _, _)
SumRange(seq, lo, hi) ==
    IF lo > hi THEN 0
    ELSE IF lo = hi THEN seq[lo]
    ELSE SumRange(seq, lo, (lo + hi) \div 2)
            + SumRange(seq, ((lo + hi) \div 2) + 1, hi)

\* record_response_time, its body run under the lock
record_response_time(m, duration_ms) ==
    [m EXCEPT !.response_times = DequeAppend(@, duration_ms)]

\* get_avg_response_time: the quotient sum / len as the pair <<sum, len>>,
\* 0.0 as <<0, 1>>
get_avg_response_time(m) ==
    IF m.response_times = <<>> THEN <<0, 1>>
    ELSE <<SumRange(m.response_times, 1, Len(m.response_times)),
           Len(m.response_times)>>

\* the endpoints increment_request is called with; "" stands for None
Endpoints == {"", "/api/hit", "/api/stand"}

\* endpoint_counts.get(endpoint, 0)
CountOf(counts, endpoint) ==
    IF endpoint \in DOMAIN counts THEN counts[endpoint] ELSE 0

\* endpoint_counts[endpoint] = value
SetCount(counts, endpoint, value) ==
    [e \in DOMAIN counts \cup {endpoint} |->
        IF e = endpoint THEN value ELSE counts[e]]

\* the durations the n-th call of record_response_time may bring: the first
\* samples and those that arrive once the window is full vary
DurationsAt(n) ==
    IF n <= 2 \/ n >= maxlen THEN {5, 20} ELSE {((n * 7) % 13) + 1}

\* the shuffles of LongSpec: the longest hand calculate keeps at 21 or less
\* (eleven cards, the twelfth busts), the longest run of the dealer loop (ten
\* cards), and a hand that a hit brings to 21
LongShuffles ==
    {ShuffleTo(<<Card("SPADES", "ACE"), Card("HEARTS", "ACE"),
                 Card("SPADES", "KING"), Card("SPADES", "SEVEN"),
                 Card("DIAMONDS", "ACE"), Card("SPADES", "TWO"),
                 Card("HEARTS", "TWO"), Card("DIAMONDS", "TWO"),
                 Card("CLUBS", "TWO"), Card("SPADES", "THREE"),
                 Card("CLUBS", "ACE"), Card("HEARTS", "THREE"),
                 Card("DIAMONDS", "THREE"), Card("HEARTS", "KING")>>),
     ShuffleTo(<<Card("SPADES", "KING"), Card("SPADES", "QUEEN"),
                 Card("SPADES", "TWO"), Card("HEARTS", "TWO"),
                 Card("DIAMONDS", "TWO"), Card("CLUBS", "TWO"),
                 Card("SPADES", "THREE"), Card("SPADES", "ACE"),
                 Card("HEARTS", "ACE"), Card("DIAMONDS", "ACE"),
                 Card("CLUBS", "ACE"), Card("HEARTS", "THREE")>>),
     ShuffleTo(<<Card("SPADES", "FOUR"), Card("SPADES", "ACE"),
                 Card("HEARTS", "ACE"), Card("HEARTS", "SIX"),
                 Card("DIAMONDS", "SIX"), Card("DIAMONDS", "ACE")>>)}

\* the sessions of PairSpec
PairSessions == {"s1", "s2"}

\* the bet and the shuffles of PairSpec: a bet the balance covers four
\* times; a hand to hit and a natural
PairBets == {25}

PairShuffles ==
    {ShuffleTo(<<Card("SPADES", "FOUR"), Card("SPADES", "ACE"),
                 Card("HEARTS", "ACE"), Card("HEARTS", "SIX"),
                 Card("DIAMONDS", "SIX"), Card("DIAMONDS", "ACE")>>),
     ShuffleTo(<<Card("SPADES", "ACE"), Card("SPADES", "KING"),
                 Card("HEARTS", "NINE"), Card("HEARTS", "SEVEN")>>)}

\* the tables of a service result
Tables(r) == [players |-> r.players, games |-> r.games]

\* the operations OverlapSpec overlaps
OverlapOps == {"start", "hit"}

\* the service call of a request on the rows it has read
Handle(q, fresh) ==
    IF q.op = "start"
    THEN start_game(q.players, q.games, q.session, q.bet, fresh)
    ELSE hit(q.players, q.games, q.session)

\* db.commit() of a changed object: the UPDATE sets the columns the request
\* assigned a new value to and leaves the others as the table has them
Flush(stored, read, new) ==
    [c \in DOMAIN stored |-> IF new[c] # read[c] THEN new[c] ELSE stored[c]]

\* db.commit() of a request that read tables q and computed result r: its
\* changed rows are updated, the game it added is inserted
CommitPlayers(P, q, r) ==
    [p \in 1..Len(P) |->
        IF p <= Len(q.players) THEN Flush(P[p], q.players[p], r.players[p])
        ELSE P[p]]

CommitGames(G, q, r) ==
    LET updated == [i \in 1..Len(G) |->
                      IF i <= Len(q.games)
                      THEN Flush(G[i], q.games[i], r.games[i])
                      ELSE G[i]]
    IN  IF Len(r.games) > Len(q.games)
        THEN Append(updated, r.games[Len(r.games)])
        ELSE updated

\* a sequence without its k-th entry
Without(seq, k) == SubSeq(seq, 1, k - 1) \o SubSeq(seq, k + 1, Len(seq))

\* no session has acted, no request is waiting
NoOverlap ==
    /\ alone = [s \in PairSessions |-> [players |-> <<>>, games |-> <<>>]]
    /\ inflight = <<>>

(***************************************************************************)
(* The state machine                                                       *)
(***************************************************************************)
Init ==
    /\ players = <<>>
    /\ games = <<>>
    /\ response = [op |-> "none", session |-> "none", bet |-> 0,
                   body |-> [error |-> ""]]
    /\ ledger = NoLedger
    /\ scoreHand = <<>>
    /\ scoreOut = 0
    /\ deckObj = <<>>
    /\ draws = <<>>
    /\ wire = <<>>
    /\ back = <<>>
    /\ NoOverlap
    /\ MetricsIdle

\* POST /api/start-game?bet=...
Start(s, bet, fresh) ==
    \E r \in {start_game(players, games, s, bet, fresh)},
       before \in {get_or_create_player(players, s)} :
        /\ r.error = "" => Len(games) < MaxGames
        /\ players' = r.players
        /\ games' = r.games
        /\ response' = [op |-> "start", session |-> s, bet |-> bet,
                        body |-> Reply(r, s)]
        /\ ledger' = IF r.error = ""
                     THEN OpenGames(r.games,
                            Opened(ledger, r.game,
                                   before.players[before.id].balance))
                     ELSE ledger
        /\ UNCHANGED <<scoreVars, deckVars, metricsVars>>

\* POST /api/hit
Hit(s) ==
    \E r \in {hit(players, games, s)} :
        /\ players' = r.players
        /\ games' = r.games
        /\ response' = [op |-> "hit", session |-> s, bet |-> 0,
                        body |-> Reply(r, s)]
        /\ ledger' = OpenGames(r.games, ledger)
        /\ UNCHANGED <<scoreVars, deckVars, metricsVars>>

\* POST /api/stand
Stand(s) ==
    \E r \in {stand(players, games, s)} :
        /\ players' = r.players
        /\ games' = r.games
        /\ response' = [op |-> "stand", session |-> s, bet |-> 0,
                        body |-> Reply(r, s)]
        /\ ledger' = OpenGames(r.games, ledger)
        /\ UNCHANGED <<scoreVars, deckVars, metricsVars>>

\* POST /api/reset
Reset(s) ==
    \E r \in {reset_player(players, s)} :
        /\ players' = r.players
        /\ response' = [op |-> "reset", session |-> s, bet |-> 0,
                        body |-> [balance |-> r.players[r.id].balance,
                                  message |-> "Balance reset successfully"]]
        /\ ledger' = [i \in DOMAIN ledger |->
                        IF games[i].player_id = r.id
                        THEN [ledger[i] EXCEPT !.reset_since = TRUE]
                        ELSE ledger[i]]
        /\ UNCHANGED <<games, scoreVars, deckVars, metricsVars>>

\* GET /api/stats
Stats(s) ==
    \E r \in {get_player_stats(players, s)} :
        /\ players' = r.players
        /\ response' = [op |-> "stats", session |-> s, bet |-> 0,
                        body |-> IF r.found THEN r.stats
                                 ELSE [error |-> "Player not found"]]
        /\ UNCHANGED <<games, ledger, scoreVars, deckVars, metricsVars>>

Next ==
    /\ \E s \in Sessions :
          \/ \E bet \in Bets :
                \E fresh \in DecksDrawn(players, games, s, bet) :
                    Start(s, bet, fresh)
          \/ Hit(s)
          \/ Stand(s)
          \/ Reset(s)
          \/ Stats(s)
    /\ UNCHANGED <<alone, inflight>>

Spec == Init /\ [][Next]_vars

\* The requests of a session that never resets its balance.
SerialNext ==
    /\ \E s \in Sessions :
          \/ \E bet \in Bets :
                \E fresh \in DecksDrawn(players, games, s, bet) :
                    Start(s, bet, fresh)
          \/ Hit(s)
          \/ Stand(s)
          \/ Stats(s)
    /\ UNCHANGED <<alone, inflight>>

SerialSpec == Init /\ [][SerialNext]_vars

\* A client that plays long games at a fixed bet: it starts, hits and stands.
LongNext ==
    /\ \E s \in Sessions :
          \/ \E fresh \in LongShuffles : Start(s, 25, fresh)
          \/ Hit(s)
          \/ Stand(s)
    /\ UNCHANGED <<alone, inflight>>

LongSpec == Init /\ [][LongNext]_vars

\* ScoreCalculator.calculate applied to a hand that grows a card at a time
Score(card) ==
    /\ Len(scoreHand) < MaxHandLen
    /\ scoreHand' = Append(scoreHand, card)
    /\ scoreOut' = calculate(Append(scoreHand, card))
    /\ UNCHANGED <<players, games, response, ledger, deckVars, alone, inflight,
                   metricsVars>>

ScoreNext == \E card \in ScoreCards : Score(card)

ScoreSpec == Init /\ [][ScoreNext]_vars

\* Deck(): a new Deck object, shuffled
DeckInit ==
    /\ players = <<>>
    /\ games = <<>>
    /\ response = [op |-> "none", session |-> "none", bet |-> 0,
                   body |-> [error |-> ""]]
    /\ ledger = NoLedger
    /\ scoreHand = <<>>
    /\ scoreOut = 0
    /\ deckObj \in Shuffles
    /\ draws = <<>>
    /\ wire = <<>>
    /\ back = <<>>
    /\ NoOverlap
    /\ MetricsIdle

\* card = deck.draw(), then the card is serialized and read back the way the
\* service persists hands and decks; `fresh` is the shuffle a refill gives
Draw(fresh) ==
    \E d \in {DeckDraw(deckObj, fresh)} :
        /\ Len(draws) < MaxDraws
        /\ deckObj' = d.cards
        /\ draws' = Append(draws, d.card)
        /\ wire' = Append(wire, to_dict(d.card))
        /\ back' = Append(back, from_dict(to_dict(d.card)))
        /\ UNCHANGED <<players, games, response, ledger, scoreVars, alone,
                       inflight, metricsVars>>

DeckNext == \E fresh \in Shuffles : Draw(fresh)

DeckSpec == DeckInit /\ [][DeckNext]_vars

\* The tables holding one player and one game in progress whose persisted
\* deck is down to its last cards: the row start_game wrote for a deal that
\* left the game open, with at most MaxLeft cards of deck_state remaining.
ExhaustedInit ==
    \E fresh \in Shuffles, left \in 0..MaxLeft :
        \E r \in {start_game(<<>>, <<>>, "s1", 25, fresh)} :
            /\ r.games[1].status = IN_PROGRESS
            /\ players = r.players
            /\ games = [r.games EXCEPT ![1].deck_state =
                            SubSeq(@, Len(@) - left + 1, Len(@))]
            /\ response = [op |-> "none", session |-> "none", bet |-> 0,
                           body |-> [error |-> ""]]
            /\ ledger = Opened(NoLedger, 1, initial_balance)
            /\ scoreHand = <<>>
            /\ scoreOut = 0
            /\ deckObj = <<>>
            /\ draws = <<>>
            /\ wire = <<>>
            /\ back = <<>>
            /\ NoOverlap
            /\ MetricsIdle

ExhaustedSpec == ExhaustedInit /\ [][Next]_vars

\* Two sessions send requests in any order.  The handlers are coroutines
\* without an await, so each runs from its first query to its commit before
\* the next one starts.  `alone` repeats each request of a session on tables
\* that only this session has touched, with the same bet and the same shuffle.
PairStart(s, bet, fresh) ==
    /\ Start(s, bet, fresh)
    /\ alone' = [alone EXCEPT ![s] =
                    Tables(start_game(@.players, @.games, s, bet, fresh))]
    /\ UNCHANGED inflight

PairHit(s) ==
    /\ Hit(s)
    /\ alone' = [alone EXCEPT ![s] = Tables(hit(@.players, @.games, s))]
    /\ UNCHANGED inflight

PairStand(s) ==
    /\ Stand(s)
    /\ alone' = [alone EXCEPT ![s] = Tables(stand(@.players, @.games, s))]
    /\ UNCHANGED inflight

PairReset(s) ==
    /\ Reset(s)
    /\ alone' = [alone EXCEPT ![s] =
                    [players |-> reset_player(@.players, s).players,
                     games |-> @.games]]
    /\ UNCHANGED inflight

PairNext ==
    \E s \in PairSessions :
        \/ \E bet \in PairBets : \E fresh \in PairShuffles :
              PairStart(s, bet, fresh)
        \/ PairHit(s)
        \/ PairStand(s)
        \/ PairReset(s)

PairSpec == Init /\ [][PairNext]_vars

\* Requests of one session that overlap.  GameService takes no lock and the
\* rows carry no version: a request queries its player and its active game
\* (the player row is committed if it is new), computes on the objects it
\* loaded and commits.  Read is the queries, Write the computation and the
\* commit; other requests may do either in between.
Read(s, op, bet) ==
    /\ Len(inflight) < MaxInflight
    /\ players' = get_or_create_player(players, s).players
    /\ inflight' = Append(inflight,
                          [session |-> s, op |-> op, bet |-> bet,
                           players |-> players', games |-> games])
    /\ UNCHANGED <<games, response, ledger, scoreVars, deckVars, alone,
                   metricsVars>>

Write(k, fresh) ==
    \E q \in {inflight[k]} : \E r \in {Handle(inflight[k], fresh)} :
        /\ Len(r.games) > Len(q.games) => Len(games) < MaxGames
        /\ players' = CommitPlayers(players, q, r)
        /\ games' = CommitGames(games, q, r)
        /\ response' =
              [op |-> q.op, session |-> q.session, bet |-> q.bet,
               body |-> Reply([players |-> players', games |-> games',
                               game |-> IF Len(r.games) > Len(q.games)
                                        THEN Len(games') ELSE r.game,
                               error |-> r.error], q.session)]
        /\ inflight' = Without(inflight, k)
        /\ UNCHANGED <<ledger, scoreVars, deckVars, alone, metricsVars>>

OverlapNext ==
    \/ \E s \in Sessions : \E op \in OverlapOps :
          \E bet \in IF op = "start" THEN PairBets ELSE {0} :
              Read(s, op, bet)
    \/ \E k \in 1..Len(inflight) :
          \E fresh \in IF inflight[k].op = "start" THEN PairShuffles
                        ELSE {NoDeck} :
              Write(k, fresh)

OverlapSpec == Init /\ [][OverlapNext]_vars

\* The middleware calls metrics.record_response_time(duration_ms); the
\* method body runs under the lock, so the call is one step.
Record(duration_ms) ==
    /\ Len(calls.durations) < MaxSamples
    /\ metrics' = record_response_time(metrics, duration_ms)
    /\ calls' = [calls EXCEPT !.durations = Append(@, duration_ms),
                             !.avg = get_avg_response_time(metrics')]
    /\ UNCHANGED <<gameVars, scoreVars, deckVars, alone, inflight, threads>>

WindowNext ==
    \E duration_ms \in DurationsAt(Len(calls.durations) + 1) :
        Record(duration_ms)

WindowSpec == Init /\ [][WindowNext]_vars

\* Thread t calls increment_request(endpoint) or increment_error().
Call(t, method, endpoint) ==
    /\ threads[t].pc = "idle"
    /\ calls.increment_request + calls.increment_error < MaxCalls
    /\ threads' = [threads EXCEPT ![t] = [pc |-> "lock", call |-> method,
                                          endpoint |-> endpoint, tmp |-> 0]]
    /\ calls' = IF method = "increment_request"
                THEN [calls EXCEPT
                        !.increment_request = @ + 1,
                        !.endpoints =
                           IF endpoint = "" THEN @
                           ELSE SetCount(@, endpoint,
                                         CountOf(@, endpoint) + 1)]
                ELSE [calls EXCEPT !.increment_error = @ + 1]
    /\ UNCHANGED <<gameVars, scoreVars, deckVars, alone, inflight, metrics>>

\* with self._lock:
Acquire(t) ==
    /\ threads[t].pc = "lock"
    /\ CanEnter(metrics)
    /\ metrics' = [metrics EXCEPT !.lock = t]
    /\ threads' = [threads EXCEPT ![t].pc = "load"]
    /\ UNCHANGED <<gameVars, scoreVars, deckVars, alone, inflight, calls>>

\* self.request_count += 1 / self.error_count += 1: the read
Load(t) ==
    /\ threads[t].pc = "load"
    /\ threads' = [threads EXCEPT
                      ![t].pc = "store",
                      ![t].tmp = IF threads[t].call = "increment_request"
                                 THEN metrics.request_count
                                 ELSE metrics.error_count]
    /\ UNCHANGED <<gameVars, scoreVars, deckVars, alone, inflight, metrics,
                   calls>>

\* self.request_count += 1 / self.error_count += 1: the write
Store(t) ==
    /\ threads[t].pc = "store"
    /\ metrics' = IF threads[t].call = "increment_request"
                  THEN [metrics EXCEPT !.request_count = threads[t].tmp + 1]
                  ELSE [metrics EXCEPT !.error_count = threads[t].tmp + 1]
    /\ threads' = [threads EXCEPT
                      ![t].pc = IF /\ threads[t].call = "increment_request"
                                   /\ threads[t].endpoint # ""
                                THEN "load_endpoint" ELSE "unlock"]
    /\ UNCHANGED <<gameVars, scoreVars, deckVars, alone, inflight, calls>>

\* self.endpoint_counts.get(endpoint, 0)
LoadEndpoint(t) ==
    /\ threads[t].pc = "load_endpoint"
    /\ threads' = [threads EXCEPT
                      ![t].pc = "store_endpoint",
                      ![t].tmp = CountOf(metrics.endpoint_counts,
                                         threads[t].endpoint)]
    /\ UNCHANGED <<gameVars, scoreVars, deckVars, alone, inflight, metrics,
                   calls>>

\* self.endpoint_counts[endpoint] = ... + 1
StoreEndpoint(t) ==
    /\ threads[t].pc = "store_endpoint"
    /\ metrics' = [metrics EXCEPT
                      !.endpoint_counts =
                         SetCount(@, threads[t].endpoint, threads[t].tmp + 1)]
    /\ threads' = [threads EXCEPT ![t].pc = "unlock"]
    /\ UNCHANGED <<gameVars, scoreVars, deckVars, alone, inflight, calls>>

\* the end of the with block
Release(t) ==
    /\ threads[t].pc = "unlock"
    /\ metrics' = [metrics EXCEPT !.lock = "free"]
    /\ threads' = [threads EXCEPT ![t] = IdleThread]
    /\ UNCHANGED <<gameVars, scoreVars, deckVars, alone, inflight, calls>>

MetricsNext ==
    \E t \in Threads :
        \/ \E endpoint \in Endpoints : Call(t, "increment_request", endpoint)
        \/ Call(t, "increment_error", "")
        \/ Acquire(t)
        \/ Load(t)
        \/ Store(t)
        \/ LoadEndpoint(t)
        \/ StoreEndpoint(t)
        \/ Release(t)

MetricsSpec == Init /\ [][MetricsNext]_vars

(***************************************************************************)
(* Vocabulary of the properties                                            *)
(***************************************************************************)
IsError(r) == "error" \in DOMAIN r.body

Rejected(r, reason) == IsError(r) /\ r.body.error = reason

\* the game rows of a player that are in progress
InProgressOf(G, player_id) ==
    {i \in 1..Len(G) : G[i].player_id = player_id /\ G[i].status = IN_PROGRESS}

\* the session has a player row, and that player a game in progress
HasActive(P, G, s) ==
    \E p \in 1..Len(P) : P[p].session_id = s /\ InProgressOf(G, p) # {}

\* the game row a hit or stand of session s works on
ActiveOf(P, G, s) ==
    CHOOSE i \in 1..Len(G) :
        \E p \in 1..Len(P) : P[p].session_id = s /\ i \in InProgressOf(G, p)

\* the player row a handler works on: the session's row, or the row it
\* creates on first contact
RowBefore(P, s) ==
    IF \E p \in 1..Len(P) : P[p].session_id = s
    THEN P[CHOOSE p \in 1..Len(P) : P[p].session_id = s]
    ELSE [session_id |-> s, balance |-> initial_balance, total_games |-> 0,
          total_wins |-> 0, total_losses |-> 0, total_pushes |-> 0]

RowAfter(P, s) == P[CHOOSE p \in 1..Len(P) : P[p].session_id = s]

\* the players table with nothing changed but the row a first contact adds
OnlyCreated(P, Q, s) ==
    IF \E p \in 1..Len(P) : P[p].session_id = s
    THEN Q = P
    ELSE Q = Append(P, RowBefore(P, s))

SameCounters(a, b) ==
    /\ a.total_games = b.total_games
    /\ a.total_wins = b.total_wins
    /\ a.total_losses = b.total_losses
    /\ a.total_pushes = b.total_pushes

\* one more game played, counted in wins, losses or pushes as given
Counted(a, b, wins, losses, pushes) ==
    /\ b.total_games = a.total_games + 1
    /\ b.total_wins = a.total_wins + wins
    /\ b.total_losses = a.total_losses + losses
    /\ b.total_pushes = a.total_pushes + pushes

\* the totals a hand can be counted as, each ace as 1 or as 11
RECURSIVE Totals(_)
Totals(cards) ==
    IF cards = <<>> THEN {0}
    ELSE {v + t : v \in (IF Head(cards).rank = "ACE" THEN {1, 11}
                         ELSE {RANK_VALUES[Head(cards).rank]}),
                  t \in Totals(Tail(cards))}

BestValue(cards) ==
    LET fit == {t \in Totals(cards) : t <= 21}
    IN  IF fit # {}
        THEN CHOOSE t \in fit : \A u \in fit : u <= t
        ELSE CHOOSE t \in Totals(cards) : \A u \in Totals(cards) : t <= u

\* a natural: exactly two cards, an ace and a ten-valued card
IsNatural(cards) ==
    /\ Len(cards) = 2
    /\ \E i, j \in 1..2 :
          i # j /\ cards[i].rank = "ACE" /\ RANK_VALUES[cards[j].rank] = 10

(***************************************************************************)
(* Properties                                                              *)
(***************************************************************************)
\* C1: for every hand, calculate returns the best blackjack value: the
\* largest total <= 21 over all countings of the aces as 1 or 11 when there
\* is one, otherwise the smallest total; so a score above 21 means the hand
\* exceeds 21 with every ace counted as 1.
C1_BestValue == scoreOut = BestValue(scoreHand)

\* at most one game of each player is in progress
AtMostOneInProgress(P, G) ==
    \A p \in 1..Len(P) : Cardinality(InProgressOf(G, p)) <= 1

\* this step is a request `op` of some session, answered with r
Answered(op, r) == r.op = op

\* the bet passes the three bet checks of start_game against this row
BetAccepted(bet, row) == bet >= min_bet /\ bet <= max_bet /\ bet <= row.balance

\* C2 as stated: after every step at most one game of a player is
\* IN_PROGRESS, and every start issued while the player has an IN_PROGRESS game
\* is rejected with "Game already in progress" and creates no game.
C2_Original ==
    [][/\ AtMostOneInProgress(players', games')
       /\ (Answered("start", response')
           /\ HasActive(players, games, response'.session))
          => /\ Rejected(response', "Game already in progress")
             /\ games' = games]_vars

\* C2 as amended: after every step at most one game of a player is
\* IN_PROGRESS; every start issued while the player has an IN_PROGRESS game is
\* rejected and creates no game, and the reason is "Game already in progress"
\* whenever the bet passes the bet checks (minimum, maximum, balance).
C2_OneActiveGame ==
    [][/\ AtMostOneInProgress(players', games')
       /\ (Answered("start", response')
           /\ HasActive(players, games, response'.session))
          => /\ IsError(response')
             /\ games' = games
             /\ BetAccepted(response'.bet,
                            RowBefore(players, response'.session))
                => Rejected(response', "Game already in progress")]_vars

\* a start with a bet that passes the bet checks was rejected because a game
\* is in progress, after an earlier game of the player has ended
C2_Witness ==
    /\ Rejected(response, "Game already in progress")
    /\ response.op = "start"
    /\ Len(games) = 2
    /\ games[1].status # IN_PROGRESS
    /\ games[2].status = IN_PROGRESS

StartReasons ==
    {MinBetMessage, MaxBetMessage, "Insufficient balance",
     "Game already in progress"}

\* C3: a rejected start returns one of the four reasons and changes nothing:
\* the player's balance and counters are as they were (a session without a
\* player row gets the row of a new player), no game row is added and no
\* game row changes.
C3_RejectedStart ==
    [][(Answered("start", response') /\ IsError(response'))
       => /\ response'.body.error \in StartReasons
          /\ games' = games
          /\ OnlyCreated(players, players', response'.session)
          /\ RowAfter(players', response'.session)
                = RowBefore(players, response'.session)]_vars

\* a start was rejected for its bet while a game of the player is open and
\* the balance is not the initial one
C3_Witness ==
    /\ response.op = "start"
    /\ Rejected(response, "Insufficient balance")
    /\ Len(games) >= 1
    /\ games[Len(games)].status = IN_PROGRESS
    /\ players[1].balance = 75

\* the game row a successful start added
Created(G) == G[Len(G)]

\* C4: a successful start with bet b (b within the limits and the balance, no
\* game in progress) adds one game row with bet b, two player cards, two
\* dealer cards and 48 cards left in the deck; if that game is IN_PROGRESS
\* the balance is the prior balance minus b and no counter changed.
C4_SuccessfulStart ==
    [][(Answered("start", response') /\ ~IsError(response'))
       => LET s == response'.session
              b == response'.bet
              before == RowBefore(players, s)
              after == RowAfter(players', s)
              g == Created(games')
          IN  /\ BetAccepted(b, before)
              /\ ~HasActive(players, games, s)
              /\ Len(games') = Len(games) + 1
              /\ SubSeq(games', 1, Len(games)) = games
              /\ g.bet_amount = b
              /\ Len(g.player_hand) = 2
              /\ Len(g.dealer_hand) = 2
              /\ Len(g.deck_state) = 48
              /\ g.status = IN_PROGRESS
                 => /\ after.balance = before.balance - b
                    /\ SameCounters(before, after)]_vars

\* a second game was started with bet 25 from a balance of 125 and is open
C4_Witness ==
    /\ response.op = "start"
    /\ ~IsError(response)
    /\ Len(games) = 2
    /\ games[2].status = IN_PROGRESS
    /\ games[2].bet_amount = 25
    /\ players[1].balance = 100

\* C5: right after a successful start the status is decided by naturals
\* alone: both hands natural -> PUSH, payout = bet, the balance back at its
\* value before the start, pushes + 1; player natural only -> BLACKJACK,
\* wins + 1; player not natural -> IN_PROGRESS whatever the dealer holds.  A
\* start that ends the game also adds one to games played and sets the
\* completion time.
C5_Naturals ==
    [][(Answered("start", response') /\ ~IsError(response'))
       => LET s == response'.session
              before == RowBefore(players, s)
              after == RowAfter(players', s)
              g == Created(games')
              player_natural == IsNatural(FromDicts(g.player_hand))
              dealer_natural == IsNatural(FromDicts(g.dealer_hand))
          IN  /\ (player_natural /\ dealer_natural)
                 => /\ g.status = PUSH
                    /\ g.payout = g.bet_amount
                    /\ after.balance = before.balance
                    /\ Counted(before, after, 0, 0, 1)
              /\ (player_natural /\ ~dealer_natural)
                 => /\ g.status = BLACKJACK
                    /\ Counted(before, after, 1, 0, 0)
              /\ ~player_natural => g.status = IN_PROGRESS
              /\ g.status # IN_PROGRESS
                 => /\ after.total_games = before.total_games + 1
                    /\ g.completed_at # "None"]_vars

\* a start dealt two naturals and ended in PUSH
C5_Witness ==
    /\ response.op = "start"
    /\ ~IsError(response)
    /\ games[Len(games)].status = PUSH
    /\ IsNatural(FromDicts(games[Len(games)].dealer_hand))
    /\ players[1].total_pushes = 1

\* C6 as stated: when start resolves to BLACKJACK the payout credited is
\* exactly bet x (1 + multiplier), 2.5 x bet with the multiplier 3/2, for
\* every bet, odd ones included, so the balance ends exactly 1.5 x bet above
\* its value before the start.
C6_Original ==
    [][(Answered("start", response') /\ ~IsError(response')
        /\ Created(games').status = BLACKJACK)
       => LET s == response'.session
              g == Created(games')
          IN  /\ blackjack_payout_den * g.payout
                    = (blackjack_payout_den + blackjack_payout_num)
                        * g.bet_amount
              /\ blackjack_payout_den
                    * (RowAfter(players', s).balance
                        - RowBefore(players, s).balance)
                    = blackjack_payout_num * g.bet_amount]_vars

\* C6 as amended: when start resolves to BLACKJACK the payout credited is
\* bet x 2.5 truncated to an integer: exactly 2.5 x bet for an even bet and
\* 2.5 x bet - 0.5 for an odd bet; the balance ends at its value before the
\* start minus the bet plus that payout.
C6_TruncatedPayout ==
    [][(Answered("start", response') /\ ~IsError(response')
        /\ Created(games').status = BLACKJACK)
       => LET s == response'.session
              g == Created(games')
              b == g.bet_amount
          IN  /\ b % 2 = 0 => 2 * g.payout = 5 * b
              /\ b % 2 = 1 => 2 * g.payout = 5 * b - 1
              /\ RowAfter(players', s).balance
                    = RowBefore(players, s).balance - b + g.payout]_vars

\* a start with the odd bet 25 ended in BLACKJACK
C6_Witness ==
    /\ response.op = "start"
    /\ ~IsError(response)
    /\ games[Len(games)].status = BLACKJACK
    /\ games[Len(games)].bet_amount = 25
    /\ games[Len(games)].payout = 62

\* C7: hit and stand for a player with no IN_PROGRESS game (none started, or
\* the last one ended) are rejected with "No active game" and leave the
\* player's balance and counters and every game row as they were (a session
\* without a player row gets the row of a new player).
C7_NoActiveGame ==
    [][((Answered("hit", response') \/ Answered("stand", response'))
        /\ ~HasActive(players, games, response'.session))
       => /\ Rejected(response', "No active game")
          /\ games' = games
          /\ OnlyCreated(players, players', response'.session)
          /\ RowAfter(players', response'.session)
                = RowBefore(players, response'.session)]_vars

\* a hit was rejected after the player's only game had ended
C7_Witness ==
    /\ response.op = "hit"
    /\ Rejected(response, "No active game")
    /\ Len(games) = 1
    /\ games[1].status = PLAYER_BUST

\* every game row but row i is as it was
OthersSame(G, H, i) ==
    /\ Len(H) = Len(G)
    /\ \A j \in 1..Len(G) : j # i => H[j] = G[j]

\* C8: a successful hit moves exactly one card, the last of the game's
\* remaining deck, to the end of the player hand and recomputes the player
\* score; the dealer hand, the bet and the balance stay.  A new score above
\* 21 makes the game PLAYER_BUST with payout 0, games played + 1 and
\* losses + 1; otherwise the game stays IN_PROGRESS and no counter changes.
C8_Hit ==
    [][(Answered("hit", response') /\ ~IsError(response'))
       => LET s == response'.session
              i == ActiveOf(players, games, s)
              old == games[i]
              new == games'[i]
              before == RowBefore(players, s)
              after == RowAfter(players', s)
          IN  /\ HasActive(players, games, s)
              /\ OthersSame(games, games', i)
              /\ old.deck_state # <<>>
              /\ new.player_hand
                    = Append(old.player_hand,
                             old.deck_state[Len(old.deck_state)])
              /\ new.deck_state
                    = SubSeq(old.deck_state, 1, Len(old.deck_state) - 1)
              /\ new.player_score = calculate(FromDicts(new.player_hand))
              /\ new.dealer_hand = old.dealer_hand
              /\ new.bet_amount = old.bet_amount
              /\ after.balance = before.balance
              /\ IF new.player_score > 21
                 THEN /\ new.status = PLAYER_BUST
                      /\ new.payout = 0
                      /\ Counted(before, after, 0, 1, 0)
                 ELSE /\ new.status = IN_PROGRESS
                      /\ SameCounters(before, after)]_vars

\* a second hit took the player from 21 on three cards to a bust
C8_Witness ==
    /\ response.op = "hit"
    /\ ~IsError(response)
    /\ games[Len(games)].status = PLAYER_BUST
    /\ Len(games[Len(games)].player_hand) = 4
    /\ players[1].total_losses = 1

Terminal == GameStatus \ {IN_PROGRESS}

\* C9: every stand on an IN_PROGRESS game ends it in a terminal status, the
\* view returned has gameOver = true, and, with no reset since the game's
\* start, the balance is the balance before that start minus the bet plus the
\* payout, the payout being 0, the bet or twice the bet.
C9_Stand ==
    [][(Answered("stand", response')
        /\ HasActive(players, games, response'.session))
       => LET s == response'.session
              i == ActiveOf(players, games, s)
              new == games'[i]
          IN  /\ ~IsError(response')
              /\ response'.body.gameOver = TRUE
              /\ new.status \in Terminal
              /\ new.payout \in {0, new.bet_amount, 2 * new.bet_amount}
              /\ ~ledger[i].reset_since
                 => RowAfter(players', s).balance
                       = ledger[i].balance_before - new.bet_amount
                            + new.payout]_vars

\* a stand after one hit won the first game: 100 - 25 + 50
C9_Witness ==
    /\ response.op = "stand"
    /\ ~IsError(response)
    /\ response.body.gameOver
    /\ Len(games) = 1
    /\ games[1].status = PLAYER_WIN
    /\ players[1].balance = 125

\* C10: stand resolves on the final dealer score d and the stored player
\* score p in this order: d > 21 -> DEALER_BUST, payout 2 x bet, wins + 1;
\* else d > p -> DEALER_WIN, payout 0, losses + 1; else d < p -> PLAYER_WIN,
\* payout 2 x bet, wins + 1; else PUSH, payout = bet, pushes + 1.  Each time
\* the payout is added to the balance, games played grows by one and the
\* player hand and player score stay.
C10_Resolution ==
    [][(Answered("stand", response') /\ ~IsError(response'))
       => LET s == response'.session
              i == ActiveOf(players, games, s)
              old == games[i]
              new == games'[i]
              before == RowBefore(players, s)
              after == RowAfter(players', s)
              d == new.dealer_score
              p == old.player_score
              bet == old.bet_amount
          IN  /\ OthersSame(games, games', i)
              /\ new.bet_amount = bet
              /\ new.player_hand = old.player_hand
              /\ new.player_score = p
              /\ after.balance = before.balance + new.payout
              /\ IF d > 21
                 THEN /\ new.status = DEALER_BUST
                      /\ new.payout = 2 * bet
                      /\ Counted(before, after, 1, 0, 0)
                 ELSE IF d > p
                 THEN /\ new.status = DEALER_WIN
                      /\ new.payout = 0
                      /\ Counted(before, after, 0, 1, 0)
                 ELSE IF d < p
                 THEN /\ new.status = PLAYER_WIN
                      /\ new.payout = 2 * bet
                      /\ Counted(before, after, 1, 0, 0)
                 ELSE /\ new.status = PUSH
                      /\ new.payout = bet
                      /\ Counted(before, after, 0, 0, 1)]_vars

\* a stand ended in a push at 21 against the dealer's natural
C10_Witness ==
    /\ response.op = "stand"
    /\ ~IsError(response)
    /\ games[Len(games)].status = PUSH
    /\ games[Len(games)].dealer_score = 21
    /\ Len(games[Len(games)].player_hand) = 3
    /\ games[Len(games)].payout = games[Len(games)].bet_amount

\* C11: after a stand the dealer's final score is at least the stand threshold
\* and a card was drawn only while the score was below it: the final hand
\* extends the two dealt cards, every hand the dealer held before the last
\* card scored below 17, and a dealt hand of 17 or more (soft 17 included)
\* is left as dealt.
C11_DealerThreshold ==
    [][(Answered("stand", response') /\ ~IsError(response'))
       => LET i == ActiveOf(players, games, response'.session)
              dealt == FromDicts(games[i].dealer_hand)
              final == FromDicts(games'[i].dealer_hand)
          IN  /\ games'[i].dealer_score >= 17
              /\ games'[i].dealer_score = calculate(final)
              /\ Len(final) >= Len(dealt)
              /\ SubSeq(final, 1, Len(dealt)) = dealt
              /\ \A k \in Len(dealt)..(Len(final) - 1) :
                    calculate(SubSeq(final, 1, k)) < 17
              /\ calculate(dealt) >= 17 => final = dealt]_vars

\* a dealer dealt ace and six stood on the soft 17 without a draw
C11_Witness ==
    /\ response.op = "stand"
    /\ ~IsError(response)
    /\ FromDicts(games[Len(games)].dealer_hand)
          = <<Card("HEARTS", "ACE"), Card("HEARTS", "SIX")>>
    /\ games[Len(games)].dealer_score = 17
    /\ games[Len(games)].status # IN_PROGRESS

Answers(op, P, G, H, s) ==
    IF op = "start" THEN H[Len(H)] ELSE H[ActiveOf(P, G, s)]

\* the base value of a rank: 11 for the ace, 10 for the faces, else the number
BaseValue(rank) ==
    IF rank = "A" THEN 11
    ELSE IF rank \in {"J", "Q", "K", "10"} THEN 10
    ELSE CHOOSE n \in 2..9 : ToString(n) = rank

\* C13: the view of a successful start, hit or stand shows the dealer's
\* second card and stored score exactly when the game is over: for a game
\* in progress the dealer hand shown is the first card and a hidden card
\* of value 0 and the score shown is the base value of the first card; for
\* a finished game it is the whole dealer hand and the stored dealer score.
C13_HoleCardHidden ==
    [][(\E op \in {"start", "hit", "stand"} : Answered(op, response')
        /\ ~IsError(response'))
       => LET g == Answers(response'.op, players, games, games',
                           response'.session)
              view == response'.body
          IN  IF g.status = IN_PROGRESS
              THEN /\ ~view.gameOver
                   /\ view.dealerHand
                        = <<g.dealer_hand[1],
                            [suit |-> "?", rank |-> "?", value |-> 0]>>
                   /\ view.dealerHand[2] # g.dealer_hand[2]
                   /\ view.dealerScore = BaseValue(g.dealer_hand[1].rank)
              ELSE /\ view.gameOver
                   /\ view.dealerHand = g.dealer_hand
                   /\ view.dealerScore = g.dealer_score]_vars

\* an open game whose dealer holds a natural is shown as ace and hidden card
C13_Witness ==
    /\ response.op = "start"
    /\ ~IsError(response)
    /\ games[Len(games)].status = IN_PROGRESS
    /\ games[Len(games)].dealer_score = 21
    /\ response.body.dealerScore = 11
    /\ Len(response.body.dealerHand) = 2

\* every card as persisted
AllDicts == {to_dict(OrderedDeck[i]) : i \in 1..Len(OrderedDeck)}

\* the game row as it would be with hole card h dealt and deck d left
WithSecret(g, h, d) ==
    [g EXCEPT !.dealer_hand = <<g.dealer_hand[1], h>>,
              !.dealer_score = calculate(FromDicts(<<g.dealer_hand[1], h>>)),
              !.deck_state = d]

\* C14: the view returned by a start or a hit that leaves the game open
\* does not depend on the hole card or the undealt cards: any game row
\* with the same bet, player hand, first dealer card, message and balance
\* but another hole card and another remaining deck has the same view.
C14_NonInterference ==
    [][((Answered("start", response') \/ Answered("hit", response'))
        /\ ~IsError(response') /\ ~response'.body.gameOver)
       => LET s == response'.session
              g == Answers(response'.op, players, games, games', s)
              row == RowAfter(players', s)
          IN  \A h \in AllDicts, d \in {<<>>, Tail(g.deck_state)} :
                get_game_state(WithSecret(g, h, d), row) = response'.body]_vars

\* a hit left the game open while the dealer held a natural
C14_Witness ==
    /\ response.op = "hit"
    /\ ~IsError(response)
    /\ ~response.body.gameOver
    /\ games[Len(games)].dealer_score = 21
    /\ Len(games[Len(games)].player_hand) = 3

\* the 52 (suit, rank) pairs
AllCards == {[suit |-> Suit[i], rank |-> Rank[j]] :
                i \in 1..Len(Suit), j \in 1..Len(Rank)}

Distinct(seq) == \A i, j \in 1..Len(seq) : i # j => seq[i] # seq[j]

\* C15: a new Deck holds 52 cards and each draw takes one card off it; the
\* first 52 draws return 52 different cards, that is every (suit, rank) pair
\* once and every rank four times, and leave 0; the 53rd draw is served from
\* a fresh 52-card deck and leaves 51.
C15_DeckOf52 ==
    LET n == Len(draws)
    IN  /\ n = 0 => Len(deckObj) = 52
        /\ n <= 52 => Len(deckObj) = 52 - n /\ Distinct(draws)
        /\ n = 52 =>
              /\ Len(deckObj) = 0
              /\ {draws[i] : i \in 1..n} = AllCards
              /\ \A j \in 1..Len(Rank) :
                    Cardinality({i \in 1..n : draws[i].rank = Rank[j]}) = 4
        /\ n = 53 => Len(deckObj) = 51
        /\ n > 52 => Len(deckObj) = 104 - n /\ draws[n] \in AllCards

\* the 53rd card was drawn and 51 are left
C15_Witness == Len(draws) = 53 /\ Len(deckObj) = 51

\* the base value of a rank from its place in the enum: ace 11, the numbers
\* their number, jack, queen and king 10
ExpectedValue(rank) ==
    LET j == CHOOSE k \in 1..Len(Rank) : Rank[k] = rank
    IN  IF j = 1 THEN 11 ELSE IF j > 10 THEN 10 ELSE j

\* C16: every card drawn comes back from from_dict(to_dict(card)) with the
\* same suit and rank, hence the same value and ace flag, and to_dict
\* carries the card's base value.
C16_RoundTrip ==
    /\ Len(wire) = Len(draws)
    /\ Len(back) = Len(draws)
    /\ \A i \in 1..Len(draws) :
          /\ back[i].suit = draws[i].suit
          /\ back[i].rank = draws[i].rank
          /\ CardValue(back[i]) = CardValue(draws[i])
          /\ is_ace(back[i]) = is_ace(draws[i])
          /\ wire[i].value = ExpectedValue(draws[i].rank)

\* all 52 cards went through to_dict and from_dict
C16_Witness ==
    /\ Len(draws) = 52
    /\ {back[i] : i \in 1..Len(back)} = AllCards
    /\ \E i \in 1..Len(wire) : wire[i].rank = "K" /\ wire[i].value = 10

\* C17: a reset leaves the player with the initial balance of 100 whatever
\* the balance was, answers with that balance, and changes none of games
\* played, wins, losses and pushes (and no game row).
C17_Reset ==
    [][Answered("reset", response')
       => LET s == response'.session
              before == RowBefore(players, s)
              after == RowAfter(players', s)
          IN  /\ after.balance = 100
              /\ response'.body.balance = 100
              /\ SameCounters(before, after)
              /\ after.session_id = before.session_id
              /\ games' = games]_vars

\* a reset met a balance of 0: the second game took the whole 125 the first
\* game's win had left, and is still open
C17_Witness ==
    /\ response.op = "reset"
    /\ Len(games) = 2
    /\ games[2].status = IN_PROGRESS
    /\ games[2].bet_amount = 125
    /\ ledger[2].balance_before = 125
    /\ ledger[2].reset_since
    /\ players[1].balance = 100
    /\ players[1].total_wins = 1

\* the rows of table P that carry session identifier s
RowsOf(P, s) == {p \in 1..Len(P) : P[p].session_id = s}

\* the row of a player who has not played: initial balance, counters 0
NewRow(s) ==
    [session_id |-> s, balance |-> 100, total_games |-> 0, total_wins |-> 0,
     total_losses |-> 0, total_pushes |-> 0]

\* C18: after any start, hit, stand or reset of a session there is exactly
\* one player row for it.  On first contact the row is added as a new
\* player's (balance 100, counters 0; an accepted start has already taken
\* the bet and paid a natural).  On every later call the table keeps its
\* rows and the session its row, which a rejected call leaves as it was
\* (current balance, nothing re-initialised).
C18_OnePlayerPerSession ==
    [][(\E op \in {"start", "hit", "stand", "reset"} : Answered(op, response'))
       => LET s == response'.session
              after == RowAfter(players', s)
          IN  /\ Cardinality(RowsOf(players', s)) = 1
              /\ IF RowsOf(players, s) # {}
                 THEN /\ Len(players') = Len(players)
                      /\ RowsOf(players', s) = RowsOf(players, s)
                      /\ IsError(response') => players' = players
                 ELSE /\ Len(players') = Len(players) + 1
                      /\ SubSeq(players', 1, Len(players)) = players
                      /\ players'[Len(players')].session_id = s
                      /\ (IsError(response') \/ response'.op = "reset")
                            => after = NewRow(s)
                      /\ (response'.op = "start" /\ ~IsError(response'))
                            => after.balance = 100 - response'.bet
                                                + Created(games').payout]_vars

\* a later call found the player with the balance a win had left
C18_Witness ==
    /\ response.op = "stand"
    /\ Rejected(response, "No active game")
    /\ Len(players) = 1
    /\ players[1].balance = 125
    /\ players[1].total_games = 1

\* C19: in every reachable state every player's balance is a non-negative
\* integer.
C19_BalanceNonNegative ==
    \A p \in 1..Len(players) : players[p].balance \in Nat

\* a bet of the whole balance was accepted and left a balance of 0
C19_Witness ==
    /\ Len(games) >= 1
    /\ games[Len(games)].bet_amount = 125
    /\ games[Len(games)].status = IN_PROGRESS
    /\ players[1].balance = 0

\* the fields of a game row that record the game
Recorded(g) ==
    <<g.status, g.player_hand, g.dealer_hand, g.deck_state, g.player_score,
      g.dealer_score, g.payout>>

\* C20: a game that is not IN_PROGRESS keeps its status, hands, deck, scores
\* and payout through every later start, hit, stand and reset.  While the
\* player has no game in progress, hit and stand are rejected, and a start
\* whose bet passes the bet checks is accepted and adds a separate game row.
C20_TerminalAbsorbing ==
    [][/\ Len(games') >= Len(games)
       /\ \A i \in 1..Len(games) :
             games[i].status # IN_PROGRESS
                => Recorded(games'[i]) = Recorded(games[i])
       /\ (games # <<>> /\ ~HasActive(players, games, response'.session))
             => /\ (Answered("hit", response') \/ Answered("stand", response'))
                      => IsError(response')
                /\ (Answered("start", response')
                    /\ BetAccepted(response'.bet,
                                   RowBefore(players, response'.session)))
                      => /\ ~IsError(response')
                         /\ Len(games') = Len(games) + 1
                         /\ SubSeq(games', 1, Len(games)) = games]_vars

\* a second game was started after the first was lost to the dealer
C20_Witness ==
    /\ response.op = "start"
    /\ ~IsError(response)
    /\ Len(games) = 2
    /\ games[1].status = DEALER_WIN
    /\ games[2].status = IN_PROGRESS

\* C26: a stats request changes nothing: no player row is added or changed
\* and no game row; for a session without a player row it answers "Player
\* not found", for an existing player it returns the row's balance and its
\* four counters.
C26_StatsReadOnly ==
    [][Answered("stats", response')
       => LET s == response'.session
          IN  /\ players' = players
              /\ games' = games
              /\ IF RowsOf(players, s) = {}
                 THEN Rejected(response', "Player not found")
                 ELSE LET row == RowAfter(players, s)
                          body == response'.body
                      IN  /\ ~IsError(response')
                          /\ body.balance = row.balance
                          /\ body.total_games = row.total_games
                          /\ body.total_wins = row.total_wins
                          /\ body.total_losses = row.total_losses
                          /\ body.total_pushes = row.total_pushes]_vars

\* stats were asked for a session that had never been seen: no row was made
C26_Witness ==
    /\ response.op = "stats"
    /\ Rejected(response, "Player not found")
    /\ players = <<>>

\* the card a new 52-card deck gives at its n-th draw: draws pop the end
NthDrawn(shuffled, n) == to_dict(shuffled[Len(shuffled) + 1 - n])

\* game row g was dealt from the new deck `shuffled`: the 48 cards it did
\* not deal are the deck the row keeps
DealtFrom(g, shuffled) ==
    g.deck_state = ToDicts(SubSeq(shuffled, 1, Len(shuffled) - 4))

\* C27 as stated: a successful start deals player, dealer, player, dealer:
\* the player hand is the 1st and 3rd card drawn from the new deck, the
\* dealer hand the 2nd and 4th.
C27_Original ==
    [][(Answered("start", response') /\ ~IsError(response'))
       => \E shuffled \in Shuffles :
            /\ DealtFrom(Created(games'), shuffled)
            /\ Created(games').player_hand
                  = <<NthDrawn(shuffled, 1), NthDrawn(shuffled, 3)>>
            /\ Created(games').dealer_hand
                  = <<NthDrawn(shuffled, 2), NthDrawn(shuffled, 4)>>]_vars

\* C27, amended: a successful start deals both player cards first: the
\* player hand is the 1st and 2nd card drawn from the new deck, the dealer
\* hand the 3rd and 4th, and the other 48 cards stay in the deck in order.
C27_DealOrder ==
    [][(Answered("start", response') /\ ~IsError(response'))
       => \E shuffled \in Shuffles :
            /\ DealtFrom(Created(games'), shuffled)
            /\ Created(games').player_hand
                  = <<NthDrawn(shuffled, 1), NthDrawn(shuffled, 2)>>
            /\ Created(games').dealer_hand
                  = <<NthDrawn(shuffled, 3), NthDrawn(shuffled, 4)>>]_vars

\* a deck drawn in the order 10s, 9s, Ah, Kh gave the player the ten and the
\* nine and the dealer the natural
C27_Witness ==
    /\ response.op = "start"
    /\ ~IsError(response)
    /\ FromDicts(games[Len(games)].player_hand)
          = <<Card("SPADES", "TEN"), Card("SPADES", "NINE")>>
    /\ FromDicts(games[Len(games)].dealer_hand)
          = <<Card("HEARTS", "ACE"), Card("HEARTS", "KING")>>
    /\ Len(games[Len(games)].deck_state) = 48

\* C28: a dealer natural is not resolved at the deal and counts as a plain
\* 21 at stand.  A start that deals the dealer a natural and the player none
\* leaves the game IN_PROGRESS with nothing paid or counted.  A stand against
\* a dealer natural leaves the dealer hand as dealt; a player 21 (three or
\* more cards) is a PUSH with the bet paid back, a player score below 21 is
\* a DEALER_WIN with payout 0.
C28_DealerNatural ==
    [][/\ (Answered("start", response') /\ ~IsError(response')
           /\ IsNatural(FromDicts(Created(games').dealer_hand))
           /\ ~IsNatural(FromDicts(Created(games').player_hand)))
          => /\ Created(games').status = IN_PROGRESS
             /\ Created(games').payout = 0
             /\ SameCounters(RowBefore(players, response'.session),
                             RowAfter(players', response'.session))
       /\ (Answered("stand", response') /\ ~IsError(response')
           /\ IsNatural(FromDicts(
                 games[ActiveOf(players, games, response'.session)]
                    .dealer_hand)))
          => LET s == response'.session
                 i == ActiveOf(players, games, s)
                 bet == games[i].bet_amount
                 before == RowBefore(players, s)
                 after == RowAfter(players', s)
             IN  /\ games'[i].dealer_hand = games[i].dealer_hand
                 /\ games[i].player_score <= 21
                 /\ IF games[i].player_score = 21
                    THEN /\ Len(games[i].player_hand) >= 3
                         /\ games'[i].status = PUSH
                         /\ games'[i].payout = bet
                         /\ after.balance = before.balance + bet
                         /\ Counted(before, after, 0, 0, 1)
                    ELSE /\ games'[i].status = DEALER_WIN
                         /\ games'[i].payout = 0
                         /\ after.balance = before.balance
                         /\ Counted(before, after, 0, 1, 0)]_vars

\* a player stood on 19 against a dealer natural and lost to it
C28_Witness ==
    /\ response.op = "stand"
    /\ ~IsError(response)
    /\ IsNatural(FromDicts(games[Len(games)].dealer_hand))
    /\ games[Len(games)].player_score = 19
    /\ games[Len(games)].status = DEALER_WIN

\* C29: in every game row the stored scores are the scores of the stored
\* hands: player_score = calculate(player_hand) and dealer_score =
\* calculate(dealer_hand).
C29_ScoresFresh ==
    \A i \in 1..Len(games) :
        /\ games[i].player_score = calculate(FromDicts(games[i].player_hand))
        /\ games[i].dealer_score = calculate(FromDicts(games[i].dealer_hand))

\* a game in which the player hit and the dealer then drew at the stand
C29_Witness ==
    /\ response.op = "stand"
    /\ ~IsError(response)
    /\ Len(games[Len(games)].player_hand) >= 3
    /\ Len(games[Len(games)].dealer_hand) >= 3
    /\ games[Len(games)].dealer_score >= 17

\* the cards of a game row: both hands and the remaining deck
CardsOf(g) == g.player_hand \o g.dealer_hand \o g.deck_state

\* C30: in every game row the player hand, the dealer hand and the
\* remaining deck are pairwise disjoint and together hold each of the 52
\* cards once; the remaining deck never has more than 52 cards.
C30_CardConservation ==
    \A i \in 1..Len(games) :
        LET cards == CardsOf(games[i])
        IN  /\ Len(cards) = 52
            /\ Cardinality({cards[k] : k \in 1..Len(cards)}) = 52
            /\ {from_dict(cards[k]) : k \in 1..Len(cards)} = AllCards
            /\ Len(games[i].deck_state) <= 52

\* both hands grew to three cards or more and the deck shrank by as many
C30_Witness ==
    /\ Len(games) >= 1
    /\ Len(games[1].player_hand) >= 3
    /\ Len(games[1].dealer_hand) >= 4
    /\ Len(games[1].deck_state) <= 45

\* the place of a card's rank in the enum
RankIndex(card) == CHOOSE j \in 1..Len(Rank) : Rank[j] = card.rank

\* the hand in the order of its ranks: one arrangement for each multiset
ByRank(cards) ==
    SortSeq(cards, LAMBDA a, b : RankIndex(a) < RankIndex(b))

\* the hand with every card moved to another suit
Resuited(cards, suit) == [k \in 1..Len(cards) |-> Card(suit, cards[k].rank)]

RECURSIVE BaseSum(_)
BaseSum(cards) ==
    IF cards = <<>> THEN 0
    ELSE ExpectedValue(Head(cards).rank) + BaseSum(Tail(cards))

\* C25: the score of a hand depends only on the multiset of its ranks: it is
\* the score of the same cards put in rank order (so all permutations of a
\* hand score alike) and of the same ranks in another suit; it is never
\* negative; a hand without aces scores the sum of its base values.
C25_OrderFree ==
    /\ scoreOut = calculate(ByRank(scoreHand))
    /\ scoreOut = calculate(Resuited(scoreHand, "HEARTS"))
    /\ scoreOut >= 0
    /\ (\A k \in 1..Len(scoreHand) : scoreHand[k].rank # "ACE")
          => scoreOut = BaseSum(scoreHand)

\* a hand with the ace first and a hand with a face card before a number
C25_Witness ==
    /\ Len(scoreHand) = 3
    /\ scoreHand[1].rank = "ACE"
    /\ scoreHand[2].rank = "KING"
    /\ scoreHand[3].rank = "FIVE"
    /\ scoreOut = 16

\* the last n entries of a sequence, in order
LastN(seq, n) ==
    IF Len(seq) <= n THEN seq ELSE SubSeq(seq, Len(seq) - n + 1, Len(seq))

\* C23: after n calls of record_response_time the window holds the
\* min(n, 1000) latest durations in arrival order, never more than 1000, and
\* get_avg_response_time is their mean (sum over count), 0.0 for none.
C23_Window ==
    LET window == metrics.response_times
        n == Len(calls.durations)
    IN  /\ Len(window) <= 1000
        /\ Len(window) = IF n < 1000 THEN n ELSE 1000
        /\ window = LastN(calls.durations, 1000)
        /\ get_avg_response_time(metrics)
              = IF n = 0 THEN <<0, 1>>
                ELSE <<SumRange(LastN(calls.durations, 1000), 1, Len(window)),
                       Len(window)>>
        /\ n > 0 => calls.avg = get_avg_response_time(metrics)

\* the 1001st sample pushed the first one out
C23_Witness ==
    /\ Len(calls.durations) = 1001
    /\ Len(metrics.response_times) = 1000
    /\ calls.durations[1] = 20
    /\ metrics.response_times[1] = 5
    /\ metrics.response_times[1000] = calls.durations[1001]

\* C24: no increment is lost: whenever no thread is inside a method,
\* request_count is the number of increment_request calls made, error_count
\* the number of increment_error calls and endpoint_counts[e] the number of
\* increment_request calls made with endpoint e.
C24_NoLostUpdate ==
    (\A t \in Threads : threads[t].pc = "idle")
       => /\ metrics.request_count = calls.increment_request
          /\ metrics.error_count = calls.increment_error
          /\ metrics.endpoint_counts = calls.endpoints

\* two threads counted requests to the same endpoint at the same time
C24_Witness ==
    /\ \A t \in Threads : threads[t].pc = "idle"
    /\ calls.increment_request = 3
    /\ calls.increment_error = 1
    /\ CountOf(metrics.endpoint_counts, "/api/hit") = 2
    /\ metrics.request_count = 3

\* what the tables hold of session s: its player rows, and the games of
\* those rows in creation order, without the row ids
SessionView(P, G, s) ==
    LET OfSession(row) == row.session_id = s
        Mine(g) == g.player_id \in 1..Len(P) /\ P[g.player_id].session_id = s
        mine == SelectSeq(G, Mine)
    IN  [rows |-> SelectSeq(P, OfSession),
         games |-> [k \in 1..Len(mine) |-> [mine[k] EXCEPT !.player_id = 0]]]

\* C21: whatever the order in which two sessions send their requests, a
\* request of one session leaves the other session's player row (balance,
\* counters) and games as they were, and after every request each session's
\* row and games are what its own requests alone produce from the same
\* shuffles.
C21_SessionsIndependent ==
    [][\A s \in PairSessions :
          /\ s # response'.session
                => SessionView(players', games', s)
                      = SessionView(players, games, s)
          /\ SessionView(players', games', s)
                = SessionView(alone'[s].players, alone'[s].games, s)]_vars

\* s1 started, s2 started, then s1 hit to a bust while s2's game goes on
C21_Witness ==
    /\ response.op = "hit"
    /\ response.session = "s1"
    /\ Len(games) = 2
    /\ Len(players) = 2
    /\ players[games[1].player_id].session_id = "s1"
    /\ players[games[2].player_id].session_id = "s2"
    /\ games[1].status = PLAYER_BUST
    /\ games[2].status = IN_PROGRESS
    /\ players[games[1].player_id].balance = 75
    /\ players[games[2].player_id].balance = 75

\* the games of a player
GamesOf(G, p) == {i \in 1..Len(G) : G[i].player_id = p}

RECURSIVE SumOver(_, _, _)
SumOver(G, rows, column) ==
    IF rows = {} THEN 0
    ELSE LET i == CHOOSE j \in rows : TRUE
         IN  G[i][column] + SumOver(G, rows \ {i}, column)

C31_RejectionOrder ==
    [][Answered("start", response')
       => LET s == response'.session
              bet == response'.bet
              balance == RowBefore(players, s).balance
              active == HasActive(players, games, s)
          IN  IF bet < 1 THEN Rejected(response', "Minimum bet is $1")
              ELSE IF bet > 1000
                   THEN Rejected(response', "Maximum bet is $1000")
              ELSE IF bet > balance
                   THEN Rejected(response', "Insufficient balance")
              ELSE IF active
                   THEN Rejected(response', "Game already in progress")
              ELSE ~IsError(response')]_vars

\* a bet above the balance, sent while a game is in progress, was rejected
\* for the balance
C31_Witness ==
    /\ response.op = "start"
    /\ response.bet = 126
    /\ Rejected(response, "Insufficient balance")
    /\ HasActive(players, games, "s1")
    /\ players[1].balance < 126

\* the games of player p with a status in `statuses`
GamesIn(G, p, statuses) ==
    {i \in 1..Len(G) : G[i].player_id = p /\ G[i].status \in statuses}

\* C32: in every state a player's total_games equals total_wins +
\* total_losses + total_pushes and the number of the player's games that are
\* not IN_PROGRESS; wins, losses and pushes are the numbers of the player's
\* games with a winning, a losing and a push status, so each finished game
\* is counted once and in one of the three.
C32_CountedOnce ==
    \A p \in 1..Len(players) :
        /\ players[p].total_games
              = players[p].total_wins + players[p].total_losses
                   + players[p].total_pushes
        /\ players[p].total_games
              = Cardinality(GamesIn(games, p, GameStatus \ {IN_PROGRESS}))
        /\ players[p].total_wins
              = Cardinality(GamesIn(games, p,
                                    {PLAYER_WIN, DEALER_BUST, BLACKJACK}))
        /\ players[p].total_losses
              = Cardinality(GamesIn(games, p, {DEALER_WIN, PLAYER_BUST}))
        /\ players[p].total_pushes = Cardinality(GamesIn(games, p, {PUSH}))

\* two finished games: a bust counted as a loss and a push counted as a push
C32_Witness ==
    /\ Len(games) = 2
    /\ players[1].total_games = 2
    /\ players[1].total_losses = 1
    /\ players[1].total_pushes = 1
    /\ \E i \in 1..2 : games[i].status = PLAYER_BUST

\* C33: every IN_PROGRESS game has a player score of at most 21 (stored, and
\* as the best value of the hand) and a player hand that is not a two-card
\* 21; so a stand finds a score of at most 21 and never gives PLAYER_WIN,
\* DEALER_BUST or PUSH to a bust hand.
C33_NoBustInProgress ==
    [][/\ \A i \in 1..Len(games') :
             games'[i].status = IN_PROGRESS
                => /\ games'[i].player_score <= 21
                   /\ BestValue(FromDicts(games'[i].player_hand)) <= 21
                   /\ ~(Len(games'[i].player_hand) = 2
                        /\ games'[i].player_score = 21)
       /\ (Answered("stand", response') /\ ~IsError(response'))
             => LET i == ActiveOf(players, games, response'.session)
                IN  /\ games[i].player_score <= 21
                    /\ games'[i].status \in {PLAYER_WIN, DEALER_BUST, PUSH}
                          => ~is_bust(calculate(
                                 FromDicts(games'[i].player_hand)))]_vars

\* a stand on a three-card 21 won against the dealer's 17
C33_Witness ==
    /\ response.op = "stand"
    /\ Len(games) >= 1
    /\ games[1].status = PLAYER_WIN
    /\ Len(games[1].player_hand) = 3
    /\ games[1].player_score = 21
    /\ games[1].dealer_score = 17

\* the game rows whose status this step set: new rows and rows whose status
\* changed
StatusSet(G, H) ==
    {i \in 1..Len(H) : i > Len(G) \/ H[i].status # G[i].status}

\* C34: status, payout and completion time agree in every game row:
\* IN_PROGRESS has payout 0 and no completion time; every other status has
\* a completion time; PLAYER_BUST and DEALER_WIN have payout 0, PUSH has
\* payout = bet, PLAYER_WIN and DEALER_BUST have payout = 2 x bet.  BLACKJACK
\* is set by start only, PLAYER_BUST by hit only, and PLAYER_WIN, DEALER_WIN
\* and DEALER_BUST by stand only.
C34_StatusConsistent ==
    [][/\ \A i \in 1..Len(games') :
             LET g == games'[i]
             IN  /\ g.status \in GameStatus
                 /\ g.status = IN_PROGRESS
                       => g.payout = 0 /\ g.completed_at = "None"
                 /\ g.status # IN_PROGRESS => g.completed_at # "None"
                 /\ g.status \in {PLAYER_BUST, DEALER_WIN} => g.payout = 0
                 /\ g.status = PUSH => g.payout = g.bet_amount
                 /\ g.status \in {PLAYER_WIN, DEALER_BUST}
                       => g.payout = 2 * g.bet_amount
       /\ \A i \in StatusSet(games, games') :
             /\ games'[i].status = BLACKJACK => response'.op = "start"
             /\ games'[i].status = PLAYER_BUST => response'.op = "hit"
             /\ games'[i].status \in {PLAYER_WIN, DEALER_WIN, DEALER_BUST}
                   => response'.op = "stand"]_vars

\* a blackjack paid at the start, then a game the dealer won at the stand
C34_Witness ==
    /\ response.op = "stand"
    /\ Len(games) = 2
    /\ games[1].status = BLACKJACK
    /\ games[1].payout = 62
    /\ games[2].status = DEALER_WIN
    /\ games[2].payout = 0
    /\ games[2].completed_at = utcnow

\* C35: while a session sends start, hit, stand and stats but no reset, its
\* balance is always the initial balance less the bets of all its games plus
\* their payouts (0 for a game in progress), and a step changes the balance
\* only if it is a start or makes one of the player's games terminal.
C35_Accounting ==
    [][\A p \in 1..Len(players') :
          /\ players'[p].balance
                = initial_balance
                     - SumOver(games', GamesOf(games', p), "bet_amount")
                     + SumOver(games', GamesOf(games', p), "payout")
          /\ (p <= Len(players) /\ players'[p].balance # players[p].balance)
                => \/ response'.op = "start"
                   \/ \E i \in StatusSet(games, games') :
                         /\ games'[i].player_id = p
                         /\ games'[i].status # IN_PROGRESS]_vars

\* a win of 50 on a bet of 25, then the whole 125 staked on a second game
C35_Witness ==
    /\ Len(games) = 2
    /\ games[1].bet_amount = 25
    /\ games[1].payout = 50
    /\ games[2].bet_amount = 125
    /\ games[2].status = IN_PROGRESS
    /\ players[1].balance = 0

\* C36: a reset sent while the session has a game in progress changes the
\* balance only: the game row stays as it is (IN_PROGRESS, same bet, hands,
\* deck and scores) and the counters stay.  When a game resolves after such
\* a reset, the balance becomes the initial balance plus the game's payout.
C36_ResetDuringGame ==
    [][/\ (Answered("reset", response')
           /\ HasActive(players, games, response'.session))
             => LET s == response'.session
                    i == ActiveOf(players, games, s)
                IN  /\ games' = games
                    /\ games'[i].status = IN_PROGRESS
                    /\ Len(players') = Len(players)
                    /\ RowAfter(players', s)
                          = [RowBefore(players, s) EXCEPT
                               !.balance = initial_balance]
       /\ \A i \in StatusSet(games, games') :
             (i \in DOMAIN ledger /\ ledger[i].reset_since)
                => players'[games'[i].player_id].balance
                      = initial_balance + games'[i].payout]_vars

\* the bet of 25 was taken, the balance was reset to 100 during the game,
\* and the win of 50 came on top
C36_Witness ==
    /\ response.op = "stand"
    /\ Len(games) = 1
    /\ games[1].bet_amount = 25
    /\ games[1].payout = 50
    /\ players[1].total_games = 1
    /\ players[1].balance = 150

\* C37: every game ends and none runs out of cards.  A game in progress has
\* cards left in its deck and at most eleven player cards; a hit is never
\* rejected for an empty deck, and each answered hit adds one card, so hits
\* alone end the game by a bust with the twelfth card at the latest.  A stand
\* ends the game with the dealer at the threshold or above and cards still
\* in the deck, so the dealer loop never leaves for want of cards.  If the
\* client keeps sending hits (infinitely many hit requests take effect), a
\* game in progress is eventually no longer in progress.
C37_GamesEnd ==
    /\ [][/\ \A i \in 1..Len(games') :
                /\ games'[i].status = IN_PROGRESS
                      => /\ games'[i].deck_state # <<>>
                         /\ Len(games'[i].player_hand) <= 11
                /\ Len(games'[i].player_hand) <= 12
                /\ Len(games'[i].dealer_hand) <= 10
          /\ ~Rejected(response', "Deck is empty")
          /\ (Answered("hit", response') /\ ~IsError(response'))
                => LET i == ActiveOf(players, games, response'.session)
                   IN  Len(games'[i].player_hand)
                          = Len(games[i].player_hand) + 1
          /\ (Answered("stand", response') /\ ~IsError(response'))
                => LET i == ActiveOf(players, games, response'.session)
                   IN  /\ games'[i].status # IN_PROGRESS
                       /\ games'[i].dealer_score >= dealer_stand_threshold
                       /\ games'[i].deck_state # <<>>]_vars
    /\ ([]<><<response'.op = "hit">>_vars)
          => \A i \in 1..MaxGames :
                (Len(games) >= i /\ games[i].status = IN_PROGRESS)
                   ~> (Len(games) >= i /\ games[i].status # IN_PROGRESS)

\* ten hits: the twelfth card bust the longest hand; in another game the
\* dealer loop drew eight cards
C37_Witness ==
    /\ Len(games) = 2
    /\ \E i \in 1..2 :
          /\ games[i].status = PLAYER_BUST
          /\ Len(games[i].player_hand) = 12
          /\ Len(games[i].deck_state) = 38
    /\ \E i \in 1..2 :
          /\ games[i].status # IN_PROGRESS
          /\ Len(games[i].dealer_hand) = 10
          /\ Len(games[i].deck_state) = 40

====
